---- MODULE Spec2Model ----
(***************************************************************************)
(* Model of taf's repositories database (taf/repositoriesdb.py) and of the *)
(* lifecycle handlers of the updater (taf/updater/lifecycle_handlers.py).  *)
(*                                                                         *)
(* A repository path "org/name" is the sequence of its '/'-separated       *)
(* segments, <<"org", "name">>, so that str.split("/") is the identity on  *)
(* the representation and the unpacking into two names can fail.  A python *)
(* dict is a function; the empty dict is <<>>.                             *)
(***************************************************************************)
EXTENDS Integers, Sequences, FiniteSets, TLC

\* ------------------------------------------------------------------ bounds
NumCommits == 2
MaxScripts == 2
MaxSegments == 3
MaxMirrors == 2
MaxDeclarations == 2

Commits == 1 .. NumCommits
\* python's None, and a value that may be None
None == [none |-> TRUE]
Some(v) == [some |-> v]
\* head_commit_sha() of a repository that does not exist yet
NoCommit == 0
AUTH == "auth_repo.path"
EmptyDict == <<>>

A_B == <<"a", "b">>
X_Y == <<"x", "y">>
D_E == <<"d", "e">>
Paths == {A_B, X_Y}

\* dict.update(other): other's entries overwrite, the rest survive
Update(d, other) ==
    [k \in DOMAIN d \cup DOMAIN other |-> IF k \in DOMAIN other THEN other[k] ELSE d[k]]

\* an assignment that forgets the other keys
OnlyThisItem(d, key, value) == key :> value

\* d[key] = value
SetItem(d, key, value) == Update(d, key :> value)

\* ------------------------------------------------ metadata at a revision
\* What the authentication repository holds at one commit.  A file is
\* missing (GitError), invalid (JSONDecodeError) or holds a parsed object.
Missing == [state |-> "missing"]
Invalid == [state |-> "invalid"]
Json(content) == [state |-> "ok", json |-> content]
\* a file whose top-level json value is a list
JsonList(content) == [state |-> "ok", json |-> content, list |-> TRUE]

Mirror == <<"https://git.example.com/", "{org_name}", "/", "{repo_name}", ".git">>
U(n) == <<"https://host/", ToString(n)>>

\* one entry of "repositories" / "dependencies": path and its data object
Decl(path, data) == [path |-> path, data |-> data]
\* one signed target: the role that signs it and its target object
Signed(role, target) == [role |-> role, target |-> target]
HostsJson == [h1 |-> [auth_repos |-> <<D_E>>, ip |-> "10.0.0.1"]]

\* hosts.json of the contained repository D_E, when it holds a list of
\* host declarations instead of the documented object
HostsList == <<[h2 |-> [auth_repos |-> <<D_E>>, ip |-> "10.0.0.2"]]>>

\* contained_hosts is hosts.json of the contained authentication
\* repository at the same revision
Meta(repos, mirrors, targets, deps, hosts, contained_hosts) ==
    [repositories |-> repos, mirrors |-> mirrors, targets |-> targets,
     dependencies |-> deps, hosts |-> hosts, contained_hosts |-> contained_hosts]

\* The revisions the model draws from: every file state the loaders
\* distinguish (absent, invalid, present), signed and unsigned declared
\* paths, explicit urls and mirror urls, in both declaration orders.
Revisions ==
    << Meta(Json([repositories |-> <<Decl(A_B, [urls |-> <<U(1)>>, custom |-> [type |-> "html"]]),
                                     Decl(X_Y, [urls |-> <<U(2)>>])>>]),
            Missing,
            A_B :> Signed("targets", [custom |-> [type |-> "xml"]]),
            Json([dependencies |-> <<Decl(D_E, [urls |-> <<U(3)>>])>>]),
            Json(HostsJson), JsonList(HostsList)),
       Meta(Json([repositories |-> <<Decl(X_Y, [custom |-> [owner |-> "x"]]), Decl(A_B, EmptyDict)>>]),
            Json([mirrors |-> <<Mirror>>]),
            (A_B :> Signed("targets", EmptyDict)) @@ (X_Y :> Signed("delegated", EmptyDict)),
            Json([dependencies |-> <<Decl(D_E, EmptyDict)>>]),
            Json(HostsJson), Json(HostsJson)),
       Meta(Json([repositories |-> <<Decl(X_Y, EmptyDict), Decl(A_B, [urls |-> <<U(4)>>])>>]),
            Invalid,
            A_B :> Signed("delegated", EmptyDict),
            Missing, Json(HostsJson), Missing),
       Meta(Missing, Missing, EmptyDict, Invalid, Json(HostsJson), Missing),
       Meta(Invalid, Json([mirrors |-> <<Mirror>>]), A_B :> Signed("targets", EmptyDict),
            Json([dependencies |-> <<Decl(D_E, EmptyDict)>>]), Missing, Missing) >>

\* The commits of the authentication repository are consecutive revisions
\* of that sequence, taken cyclically from any of them on.
Histories ==
    {[c \in Commits |-> Revisions[((k + c - 2) % Len(Revisions)) + 1]] :
        k \in 1 .. Len(Revisions)}

VARIABLES meta, _repositories_dict, _dependencies_dict, last

dbvars == <<meta, _repositories_dict, _dependencies_dict, last>>

\* The updater's side: settings.development_mode, the scripts directories
\* of the authentication repository (at the last validated commit and in
\* the working tree), the file last_successful_commits.json, and the run of
\* the dispatcher.
VARIABLES development_mode, tree, persistent_file, run

lcvars == <<development_mode, tree, persistent_file, run>>

vars == <<dbvars, lcvars>>

\* ------------------------------------------------------------ exceptions
RepositoryInstantiationError == "RepositoryInstantiationError"
RepositoriesNotFoundError == "RepositoriesNotFoundError"
InvalidOrMissingMetadataError == "InvalidOrMissingMetadataError"
PlainException == "Exception"
TypeError == "TypeError"

Raise(e) == [raised |-> e]
Return(v) == [value |-> v]
Raised(r) == "raised" \in DOMAIN r

\* _get_json_file: the parsed file, or InvalidOrMissingMetadataError whose
\* message tells "not available" (GitError) from "not a valid json"
_get_json_file(commit, file) ==
    LET content == meta[commit][file] IN
    IF content.state = "missing"
    THEN [raised |-> InvalidOrMissingMetadataError, msg |-> "not available at revision"]
    ELSE IF content.state = "invalid"
    THEN [raised |-> InvalidOrMissingMetadataError, msg |-> "not a valid json at revision"]
    ELSE Return(content.json)

\* _load_repositories_json: None for an absent file, the error otherwise
_load_repositories_json(commit) ==
    LET r == _get_json_file(commit, "repositories") IN
    IF Raised(r) /\ r.msg = "not available at revision" THEN Return(None) ELSE r

\* _load_dependencies_json
_load_dependencies_json(commit) ==
    LET r == _get_json_file(commit, "dependencies") IN
    IF Raised(r) /\ r.msg = "not available at revision" THEN Return(None) ELSE r

\* _load_mirrors_json: every InvalidOrMissingMetadataError gives None
_load_mirrors_json(commit) ==
    LET r == _get_json_file(commit, "mirrors") IN
    IF Raised(r) THEN None
    ELSE IF "mirrors" \in DOMAIN r.value THEN Some(r.value.mirrors) ELSE None

\* _load_hosts_json(auth_repo, commit): no error is caught; file is "hosts"
\* for the authentication repository, "contained_hosts" for a contained one
_load_hosts_json(file, commit) == _get_json_file(commit, file)

\* _targets_of_roles: the signed targets of the given roles (of every role
\* when roles is None or empty), each with its target object
_targets_of_roles(commit, roles) ==
    LET t == meta[commit].targets
        sel == {p \in DOMAIN t : Len(roles) = 0 \/ \E i \in 1 .. Len(roles) : roles[i] = t[p].role}
    IN [p \in sel |-> t[p].target]

\* a format that swaps the two names
Swapped(template, org_name, repo_name) ==
    [i \in 1 .. Len(template) |->
        IF template[i] = "{org_name}" THEN repo_name
        ELSE IF template[i] = "{repo_name}" THEN org_name
        ELSE template[i]]

\* str.format of one mirror template
Format(template, org_name, repo_name) ==
    [i \in 1 .. Len(template) |->
        IF template[i] = "{org_name}" THEN org_name
        ELSE IF template[i] = "{repo_name}" THEN repo_name
        ELSE template[i]]

\* _get_urls
_get_urls(mirrors, repo_path, repo_data) ==
    IF "urls" \in DOMAIN repo_data THEN Return(repo_data.urls)
    ELSE IF mirrors = None THEN Raise(RepositoryInstantiationError)
    ELSE IF Len(repo_path) # 2 THEN Raise(RepositoryInstantiationError)
    ELSE Return([i \in 1 .. Len(mirrors.some) |->
                    Format(mirrors.some[i], repo_path[1], repo_path[2])])

\* a merge in which the repository's values win
RepoWins(repo, target) ==
    LET custom == IF "custom" \in DOMAIN repo THEN repo.custom ELSE EmptyDict
    IN  IF target # None /\ "custom" \in DOMAIN target.some
        THEN Update(target.some.custom, custom) ELSE custom

\* _get_custom_data: the repository's custom data updated with the target's
\* (target is None or Some(target object))
_get_custom_data(repo, target) ==
    LET custom == IF "custom" \in DOMAIN repo THEN repo.custom ELSE EmptyDict
        target_custom == IF target # None /\ "custom" \in DOMAIN target.some
                         THEN Some(target.some.custom) ELSE None
    IN IF target_custom # None THEN Update(custom, target_custom.some) ELSE custom

\* what _get_custom_data leaves in repo: custom is repo["custom"] itself when
\* repo has one, and update (line 288) changes it in place
_get_custom_data_repo(repo, target) ==
    IF "custom" \in DOMAIN repo
    THEN [repo EXCEPT !.custom = _get_custom_data(repo, target)]
    ELSE repo

\* ------------------------------------------------------- the factory
\* The classes a caller may hand over: the default, a subclass of it, a
\* class that is no NamedGitRepository, and one whose constructor raises.
NamedGitRepository == "NamedGitRepository"
Classes == {NamedGitRepository, "CustomGitRepository", "object", "FailingRepository"}
\* a check that every object passes
AnyObject(git_repo) == TRUE

\* isinstance(git_repo, NamedGitRepository)
IsNamedGitRepository(git_repo) == git_repo.cls \in {NamedGitRepository, "CustomGitRepository"}

DEFAULT == <<"default">>
NoClasses == [kind |-> "None"]
OneClass(cls) == [kind |-> "class", cls |-> cls]
ClassDict(d) == [kind |-> "dict", dict |-> d]

\* _determine_repo_class
_determine_repo_class(repo_classes, path) ==
    IF repo_classes.kind = "None" THEN NamedGitRepository
    ELSE IF repo_classes.kind # "dict" THEN repo_classes.cls
    ELSE IF path \in DOMAIN repo_classes.dict THEN repo_classes.dict[path]
    ELSE IF DEFAULT \in DOMAIN repo_classes.dict THEN repo_classes.dict[DEFAULT]
    ELSE NamedGitRepository

\* Path(auth_repo.path).parent.parent
DefaultRootDir == "auth_repo.path/../.."

\* git_repo_class(root_dir, path, urls, additional_info); commit names the
\* load that made the object (its identity)
NewRepo(cls, root_dir, path, urls, additional_info, commit) ==
    [cls |-> cls, root_dir |-> root_dir, path |-> path, urls |-> urls,
     additional_info |-> additional_info, commit |-> commit]

\* the exception a failing factory or constructor raises
ErrorOf(cls) == [exception |-> "ValueError", message |-> cls \o " failed"]

\* an except clause that lets the exception through as it is
Unwrapped(root_dir, path, e) == [raised |-> e.exception, message |-> e.message]

\* lines 240-247: raise RepositoryInstantiationError(f"{root_dir / path}",
\* str(e)); root_dir / path is the root's path followed by the segments
InstantiationError(root_dir, path, e) ==
    [raised |-> RepositoryInstantiationError, repo_path |-> <<root_dir>> \o path,
     message |-> e.message]

\* lines 235-239: what the factory, or the class chosen for the path, gives:
\* an object, None (a factory only), or an exception.  A factory is a
\* function from paths to what it does there: "raise", "None", or the class
\* of the object it returns.
Construct(factory, repo_classes, root_dir, path, urls, additional_info, commit) ==
    LET cls == IF factory # None THEN factory.some[path]
               ELSE _determine_repo_class(repo_classes, path)
    IN IF cls \in {"raise", "FailingRepository"} THEN ErrorOf(cls)
       ELSE IF cls = "None" THEN Return(None)
       ELSE Return(Some(NewRepo(cls, root_dir, path, urls, additional_info, commit)))

\* lines 234-247: the same, any exception re-raised as
\* RepositoryInstantiationError
Instantiate(factory, repo_classes, root_dir, path, urls, additional_info, commit) ==
    LET r == Construct(factory, repo_classes, root_dir, path, urls, additional_info, commit)
    IN IF "exception" \in DOMAIN r THEN InstantiationError(root_dir, path, r) ELSE r

\* ------------------------------------------------------ load_repositories
\* line 228: a declared path that is no signed target is passed over
SkipsEveryUnsigned(path, targets, only_load_targets) == path \notin DOMAIN targets

_skip_path(path, targets, only_load_targets) ==
    path \notin DOMAIN targets /\ only_load_targets

\* line 211: check if already loaded
NeverLoaded(db, commit) == FALSE

_repositories_loaded_at(db, commit) == commit \in DOMAIN db

\* lines 226-256, from the i-th declared repository on.  st holds the
\* commit's repositories_dict and the instantiations made so far.
RECURSIVE _load_repositories_paths(_, _, _, _, _, _, _)
_load_repositories_paths(args, commit, repositories, mirrors, targets, i, st) ==
    IF i > Len(repositories) THEN [dict |-> st.dict, calls |-> st.calls, exc |-> None]
    ELSE
    LET path == repositories[i].path
        repo_data == repositories[i].data
        urls == _get_urls(mirrors, path, repo_data)
    IN
    IF Raised(urls)
    THEN [dict |-> st.dict, calls |-> st.calls, exc |-> Some(Raise(urls.raised))]
    ELSE IF _skip_path(path, targets, args.only_load_targets)
    THEN _load_repositories_paths(args, commit, repositories, mirrors, targets, i + 1, st)
    ELSE
    LET additional_info ==
            _get_custom_data(repo_data,
                IF path \in DOMAIN targets THEN Some(targets[path]) ELSE None)
        git_repo == Instantiate(args.factory, args.repo_classes, args.root_dir,
                                path, urls.value, additional_info, commit)
        made == Construct(args.factory, args.repo_classes, args.root_dir,
                          path, urls.value, additional_info, commit)
        calls == Append(st.calls, [commit |-> commit, path |-> path,
                    out |-> IF Raised(git_repo) THEN "raise"
                            ELSE IF git_repo.value = None THEN "None"
                            ELSE git_repo.value.some.cls,
                    error |-> IF "exception" \in DOMAIN made THEN made.message ELSE ""])
    IN
    IF Raised(git_repo)
    THEN [dict |-> st.dict, calls |-> calls, exc |-> Some(git_repo)]
    ELSE IF git_repo.value = None
    THEN _load_repositories_paths(args, commit, repositories, mirrors, targets, i + 1,
            [dict |-> st.dict, calls |-> calls])
    ELSE IF ~IsNamedGitRepository(git_repo.value.some)
    THEN [dict |-> st.dict, calls |-> calls, exc |-> Some(Raise(PlainException))]
    ELSE _load_repositories_paths(args, commit, repositories, mirrors, targets, i + 1,
            [dict |-> SetItem(st.dict, path, git_repo.value.some), calls |-> calls])

\* lines 208-262, from the i-th commit of the list on.  st.db is
\* _repositories_dict[auth_repo.path]; the commit's dict is stored in it
\* before it is filled, so st.db holds whatever was put in it when an
\* exception ends the loop.
RECURSIVE _load_repositories_commits(_, _, _, _)
_load_repositories_commits(args, commits, i, st) ==
    IF i > Len(commits) THEN st
    ELSE
    LET commit == commits[i] IN
    IF _repositories_loaded_at(st.db, commit)
    THEN _load_repositories_commits(args, commits, i + 1, st)
    ELSE
    LET db1 == SetItem(st.db, commit, EmptyDict)
        repositories == _load_repositories_json(commit)
        reads1 == st.reads \cup {<<"repositories.json", commit>>}
    IN
    IF Raised(repositories)
    THEN [db |-> db1, reads |-> reads1, calls |-> st.calls, exc |-> Some(Raise(repositories.raised))]
    ELSE IF repositories.value = None
    THEN _load_repositories_commits(args, commits, i + 1,
            [db |-> db1, reads |-> reads1, calls |-> st.calls, exc |-> None])
    ELSE
    LET mirrors == _load_mirrors_json(commit)
        targets == _targets_of_roles(commit, args.roles)
        reads2 == reads1 \cup {<<"mirrors.json", commit>>, <<"targets", commit>>}
        r == _load_repositories_paths(args, commit, repositories.value.repositories,
                mirrors, targets, 1, [dict |-> EmptyDict, calls |-> st.calls])
        db2 == SetItem(st.db, commit, r.dict)
    IN
    IF r.exc # None
    THEN [db |-> db2, reads |-> reads2, calls |-> r.calls, exc |-> r.exc]
    ELSE _load_repositories_commits(args, commits, i + 1,
            [db |-> db2, reads |-> reads2, calls |-> r.calls, exc |-> None])

\* a selection that leaves only_load_targets as the caller passed it
AsPassed(only_load_targets, roles) == only_load_targets

\* lines 205-206: a non-empty roles list sets only_load_targets
_only_load_targets(only_load_targets, roles) == only_load_targets \/ Len(roles) > 0

\* load_repositories(auth_repo, repo_classes, factory, root_dir,
\* only_load_targets, commits, roles); head is auth_repo.head_commit_sha()
load_repositories(repo_classes, factory, root_dir, only_load_targets, commits, roles, head) ==
    LET dict0 == IF AUTH \in DOMAIN _repositories_dict THEN _repositories_dict
                 ELSE SetItem(_repositories_dict, AUTH, EmptyDict)
        call == [op |-> "load_repositories", only_load_targets |-> only_load_targets,
                 roles |-> roles, root_dir |-> root_dir]
    IN
    IF commits = None /\ head = NoCommit
    THEN /\ _repositories_dict' = dict0
         /\ last' = call @@ [commits |-> <<>>, result |-> Return(None),
                             reads |-> {}, calls |-> <<>>]
    ELSE
    LET cs == IF commits = None THEN <<head>> ELSE commits.some
        args == [repo_classes |-> repo_classes, factory |-> factory,
                 root_dir |-> IF root_dir = None THEN DefaultRootDir ELSE root_dir.some,
                 only_load_targets |-> _only_load_targets(only_load_targets, roles),
                 roles |-> roles]
        st == _load_repositories_commits(args, cs, 1,
                [db |-> dict0[AUTH], reads |-> {}, calls |-> <<>>, exc |-> None])
    IN /\ _repositories_dict' = SetItem(dict0, AUTH, st.db)
       /\ last' = call @@ [commits |-> cs,
                           result |-> IF st.exc = None THEN Return(None) ELSE st.exc.some,
                           reads |-> st.reads, calls |-> st.calls]

\* ------------------------------------------------------ load_dependencies
NamedAuthenticationRepo == "NamedAuthenticationRepo"
\* issubclass(auth_class, NamedAuthenticationRepo)
IsAuthClass(cls) == cls \in {NamedAuthenticationRepo, "CustomAuthRepo", "FailingRepository"}

AUTH_REPOS_HOSTS_KEY == "auth_repos"

\* a membership test that every name passes
NamesAll(list, x) == TRUE

Contains(list, x) == \E i \in 1 .. Len(list) : list[i] = x

\* line 93: check if already loaded
_dependencies_loaded_at(db, commit) == commit \in DOMAIN db

\* the hosts naming the repository with their auth_repos list left in
WithMembership(hosts_info, name) ==
    LET named == {host \in DOMAIN hosts_info :
                    Contains(hosts_info[host][AUTH_REPOS_HOSTS_KEY], name)}
    IN [host \in named |-> hosts_info[host]]

\* lines 593-598 for one hosts.json object: the hosts naming the repository,
\* each without its auth_repos list
HostsOfRepoIn(hosts_info, name) ==
    LET named == {host \in DOMAIN hosts_info :
                    Contains(hosts_info[host][AUTH_REPOS_HOSTS_KEY], name)}
    IN [host \in named |->
            [k \in DOMAIN hosts_info[host] \ {AUTH_REPOS_HOSTS_KEY} |-> hosts_info[host][k]]]

\* set_hosts_of_repo(auth_repo, hosts): the value given to auth_repo.hosts;
\* later declarations overwrite earlier ones of the same host
RECURSIVE set_hosts_of_repo(_, _)
set_hosts_of_repo(name, hosts) ==
    IF Len(hosts) = 0 THEN EmptyDict
    ELSE Update(set_hosts_of_repo(name, SubSeq(hosts, 1, Len(hosts) - 1)),
                HostsOfRepoIn(hosts[Len(hosts)], name))

\* how set_hosts_of_repo ends: host_data[AUTH_REPOS_HOSTS_KEY] (line 594)
\* is a KeyError for a host without that field, and nothing else raises
set_hosts_of_repo_result(hosts) ==
    IF \E i \in 1 .. Len(hosts) : \E host \in DOMAIN hosts[i] :
            AUTH_REPOS_HOSTS_KEY \notin DOMAIN hosts[i][host]
    THEN Raise("KeyError")
    ELSE Return(None)

\* what set_hosts_of_repo leaves in hosts: data = dict(host_data) (line 596)
\* is a copy, and pop takes auth_repos out of the copy
set_hosts_of_repo_leaves(name, hosts) == hosts

\* line 134: hosts[commit] + _load_hosts_json(contained_auth_repo, commit),
\* a list plus what the contained repository's hosts.json holds: the error of
\* the read, TypeError for a json object, the longer list for a json list
ContainedHosts(hosts_at_commit, commit) ==
    LET r == _load_hosts_json("contained_hosts", commit) IN
    IF Raised(r) THEN Raise(r.raised)
    ELSE IF "list" \in DOMAIN meta[commit]["contained_hosts"]
    THEN Return(hosts_at_commit \o r.value)
    ELSE Raise(TypeError)

\* lines 105-135, from the i-th declared dependency on
\* a handler that keeps the handles made so far and lets the error out
Reraised(commit, path, st) ==
    [dict |-> st.dict, calls |-> st.calls,
     exc |-> Some(Raise(RepositoryInstantiationError)),
     unresolved |-> {path}]

\* lines 107-110: except RepositoryInstantiationError: the commit's dict is
\* cleared and the loop over its dependencies is left
_url_failure(commit, path, st) ==
    [dict |-> EmptyDict, calls |-> st.calls, exc |-> None,
     unresolved |-> {path}]

RECURSIVE _load_dependencies_paths(_, _, _, _, _, _, _)
_load_dependencies_paths(args, commit, dependencies, mirrors, hosts_at_commit, i, st) ==
    IF i > Len(dependencies)
    THEN [dict |-> st.dict, calls |-> st.calls, exc |-> None, unresolved |-> {}]
    ELSE
    LET path == dependencies[i].path
        repo_data == dependencies[i].data
        urls == _get_urls(mirrors, path, repo_data)
    IN
    IF Raised(urls)
    THEN _url_failure(commit, path, st)
    ELSE
    LET additional_info == _get_custom_data(repo_data, None)
        auth_class == IF args.auth_class = None THEN NamedAuthenticationRepo
                      ELSE args.auth_class.some
        calls == Append(st.calls, [commit |-> commit, path |-> path, out |-> auth_class,
                    error |-> IF auth_class = "FailingRepository"
                              THEN ErrorOf(auth_class).message ELSE ""])
        contained_auth_repo ==
            NewRepo(auth_class, args.root_dir, path, urls.value, additional_info, commit)
        hosts == ContainedHosts(hosts_at_commit, commit)
    IN
    IF ~IsAuthClass(auth_class)
    THEN [dict |-> st.dict, calls |-> st.calls, exc |-> Some(Raise(PlainException)),
          unresolved |-> {}]
    ELSE IF auth_class = "FailingRepository"
    THEN [dict |-> st.dict, calls |-> calls,
          exc |-> Some(InstantiationError(args.root_dir, path, ErrorOf(auth_class))),
          unresolved |-> {}]
    ELSE IF Raised(hosts)
    THEN [dict |-> st.dict, calls |-> calls, exc |-> Some(Raise(hosts.raised)),
          unresolved |-> {}]
    ELSE _load_dependencies_paths(args, commit, dependencies, mirrors, hosts_at_commit, i + 1,
            [dict |-> SetItem(st.dict, path,
                        contained_auth_repo @@ [hosts |-> set_hosts_of_repo(path, hosts.value)]),
             calls |-> calls])

\* lines 87-141, from the i-th commit of the list on.  st.hosts is the local
\* hosts: None for the list [] that stands in for an omitted ancestor_hosts,
\* else Some(dict from commits to lists of host declarations).  st.at is
\* the position in the list the loop is at, st.unresolved the positions
\* and paths at which _get_urls raised.
RECURSIVE _load_dependencies_commits(_, _, _, _)
_load_dependencies_commits(args, commits, i, st) ==
    IF i > Len(commits) THEN st
    ELSE
    LET commit == commits[i]
        own == _load_hosts_json("hosts", commit)
        read_hosts == st.hosts = None \/ commit \notin DOMAIN st.hosts.some
        reads0 == IF read_hosts THEN st.reads \cup {<<"hosts.json", commit>>} ELSE st.reads
        hosts1 == IF read_hosts /\ st.hosts # None /\ ~Raised(own)
                  THEN Some(SetItem(st.hosts.some, commit, <<own.value>>)) ELSE st.hosts
        st0 == [db |-> st.db, hosts |-> hosts1, reads |-> reads0, calls |-> st.calls,
                exc |-> None, unresolved |-> st.unresolved, at |-> i]
    IN
    IF read_hosts /\ Raised(own)
    THEN [st0 EXCEPT !.exc = Some(Raise(own.raised))]
    ELSE IF read_hosts /\ st.hosts = None
    THEN [st0 EXCEPT !.exc = Some(Raise(TypeError))]
    ELSE IF _dependencies_loaded_at(st.db, commit)
    THEN _load_dependencies_commits(args, commits, i + 1, st0)
    ELSE
    LET db1 == SetItem(st.db, commit, EmptyDict)
        dependencies == _load_dependencies_json(commit)
        reads1 == reads0 \cup {<<"dependencies.json", commit>>}
    IN
    IF Raised(dependencies)
    THEN [st0 EXCEPT !.db = db1, !.reads = reads1, !.exc = Some(Raise(dependencies.raised))]
    ELSE IF dependencies.value = None
    THEN _load_dependencies_commits(args, commits, i + 1,
            [st0 EXCEPT !.db = db1, !.reads = reads1])
    ELSE
    LET mirrors == _load_mirrors_json(commit)
        reads2 == reads1 \cup {<<"mirrors.json", commit>>}
        r == _load_dependencies_paths(args, commit, dependencies.value.dependencies,
                mirrors, hosts1.some[commit], 1, [dict |-> EmptyDict, calls |-> st.calls])
        st2 == [st0 EXCEPT !.db = SetItem(st.db, commit, r.dict), !.reads = reads2,
                           !.calls = r.calls,
                           !.unresolved =
                                @ \cup {[at |-> i, commit |-> commit, path |-> q] :
                                            q \in r.unresolved}]
    IN
    IF r.exc # None THEN [st2 EXCEPT !.exc = r.exc]
    ELSE _load_dependencies_commits(args, commits, i + 1, st2)

\* load_dependencies(auth_repo, auth_class, root_dir, commits, ancestor_hosts)
load_dependencies(auth_class, root_dir, commits, ancestor_hosts, head) ==
    LET dict0 == IF AUTH \in DOMAIN _dependencies_dict THEN _dependencies_dict
                 ELSE SetItem(_dependencies_dict, AUTH, EmptyDict)
        call == [op |-> "load_dependencies", auth_class |-> auth_class,
                 ancestor_hosts |-> ancestor_hosts, root_dir |-> root_dir]
    IN
    IF commits = None /\ head = NoCommit
    THEN /\ _dependencies_dict' = dict0
         /\ last' = call @@ [commits |-> <<>>, result |-> Return(None),
                             reads |-> {}, calls |-> <<>>, unresolved |-> {},
                             at |-> 0]
    ELSE
    LET cs == IF commits = None THEN <<head>> ELSE commits.some
        args == [auth_class |-> auth_class,
                 root_dir |-> IF root_dir = None THEN DefaultRootDir ELSE root_dir.some]
        st == _load_dependencies_commits(args, cs, 1,
                [db |-> dict0[AUTH], hosts |-> ancestor_hosts, reads |-> {},
                 calls |-> <<>>, exc |-> None, unresolved |-> {}, at |-> 0])
    IN /\ _dependencies_dict' = SetItem(dict0, AUTH, st.db)
       /\ last' = call @@ [commits |-> cs,
                           result |-> IF st.exc = None THEN Return(None) ELSE st.exc.some,
                           reads |-> st.reads, calls |-> st.calls,
                           unresolved |-> st.unresolved, at |-> st.at]

\* ---------------------------------------------------------- accessors
NotLoaded == [raised |-> RepositoriesNotFoundError, msg |-> "have not been loaded"]
NotLoadedAt(commit) ==
    [raised |-> RepositoriesNotFoundError, msg |-> "at revision have not been loaded",
     commit |-> commit]

\* dict.get(key): Some(value) or None
Get(d, key) == IF key \in DOMAIN d THEN Some(d[key]) ELSE None

\* a choice of store that takes the other one
Crossed(load_auth) == IF load_auth THEN _repositories_dict ELSE _dependencies_dict

LoadedDict(load_auth) == IF load_auth THEN _dependencies_dict ELSE _repositories_dict

\* an accessor that answers a commit never loaded with an empty dict
EmptyForUnloaded(commit, load_auth, head) ==
    LET c == IF commit = None THEN head ELSE commit.some
        all_repositories == Get(LoadedDict(load_auth), AUTH)
    IN IF all_repositories = None THEN NotLoaded
       ELSE LET repositories == Get(all_repositories.some, c)
            IN IF repositories = None THEN Return(EmptyDict)
               ELSE Return(repositories.some)

\* _get_repositories(auth_repo, commit, load_auth); commit is None or
\* Some(commit), head is auth_repo.head_commit_sha()
_get_repositories(commit, load_auth, head) ==
    LET c == IF commit = None THEN head ELSE commit.some
        all_repositories == Get(LoadedDict(load_auth), AUTH)
    IN IF all_repositories = None THEN NotLoaded
       ELSE LET repositories == Get(all_repositories.some, c)
            IN IF repositories = None THEN NotLoadedAt(c)
               ELSE Return(repositories.some)

\* lines 419-421: will overwrite older repo with newer
KeepOlder(repositories, at_commit) == Update(at_commit, repositories)

_overlay(repositories, at_commit) == Update(repositories, at_commit)

\* lines 406-421, from the i-th commit on: each commit's entries overwrite
\* those gathered from the commits before it
RECURSIVE _deduplicate(_, _, _, _)
_deduplicate(all_repositories, commits, i, repositories) ==
    IF i > Len(commits) THEN Return(repositories)
    ELSE IF commits[i] \notin DOMAIN all_repositories THEN NotLoadedAt(commits[i])
    ELSE _deduplicate(all_repositories, commits, i + 1,
            _overlay(repositories, all_repositories[commits[i]]))

\* _get_deduplicated_target_or_auth_repositotries(auth_repo, commits, load_auth)
_get_deduplicated_target_or_auth_repositotries(commits, load_auth) ==
    LET all_repositories == Get(LoadedDict(load_auth), AUTH)
    IN IF all_repositories = None THEN NotLoaded
       ELSE _deduplicate(all_repositories.some, commits, 1, EmptyDict)

get_repositories(commit, head) ==
    /\ last' = [op |-> "get_repositories", commit |-> commit, head |-> head,
                result |-> _get_repositories(commit, FALSE, head)]
    /\ UNCHANGED <<_repositories_dict, _dependencies_dict>>

\* a comparison that every repository passes
MatchesAll(custom_data, repo) == TRUE

\* lines 505-510: custom_data.items() <= repo.additional_info.items()
_compare(custom_data, repo) ==
    \A k \in DOMAIN custom_data :
        /\ k \in DOMAIN repo.additional_info
        /\ repo.additional_info[k] = custom_data[k]

\* get_repositories_by_custom_data(auth_repo, commit, **custom_data); the
\* list it returns is given as the set of its elements
get_repositories_by_custom_data(commit, head, custom_data) ==
    LET loaded == _get_repositories(commit, FALSE, head)
        repositories == {loaded.value[path] : path \in DOMAIN loaded.value}
        found_repos == IF DOMAIN custom_data # {}
                       THEN {repo \in repositories : _compare(custom_data, repo)}
                       ELSE repositories
    IN  /\ last' = [op |-> "get_repositories_by_custom_data",
                    commit |-> commit, head |-> head, custom_data |-> custom_data,
                    result |-> IF Raised(loaded) THEN loaded
                               ELSE IF found_repos # {} THEN Return(found_repos)
                               ELSE Raise(RepositoriesNotFoundError)]
        /\ UNCHANGED <<_repositories_dict, _dependencies_dict>>

get_auth_repositories(commit, head) ==
    /\ last' = [op |-> "get_auth_repositories", commit |-> commit, head |-> head,
                result |-> _get_repositories(commit, TRUE, head)]
    /\ UNCHANGED <<_repositories_dict, _dependencies_dict>>

\* a lookup that raises for a path the commit's map does not hold
Subscript(path, commit, head) ==
    LET repositories == _get_repositories(commit, FALSE, head)
    IN  /\ last' = [op |-> "get_repository", path |-> path, commit |-> commit,
                    head |-> head,
                    result |-> IF Raised(repositories) THEN repositories
                               ELSE IF path \in DOMAIN repositories.value
                               THEN Return(Some(repositories.value[path]))
                               ELSE Raise("KeyError")]
        /\ UNCHANGED <<_repositories_dict, _dependencies_dict>>

\* get_repository(auth_repo, path, commit): get_repositories(...).get(path)
get_repository(path, commit, head) ==
    LET repositories == _get_repositories(commit, FALSE, head)
    IN  /\ last' = [op |-> "get_repository", path |-> path, commit |-> commit,
                    head |-> head,
                    result |-> IF Raised(repositories) THEN repositories
                               ELSE Return(Get(repositories.value, path))]
        /\ UNCHANGED <<_repositories_dict, _dependencies_dict>>

\* get_auth_repository(auth_repo, path, commit)
get_auth_repository(path, commit, head) ==
    LET repositories == _get_repositories(commit, TRUE, head)
    IN  /\ last' = [op |-> "get_auth_repository", path |-> path, commit |-> commit,
                    head |-> head,
                    result |-> IF Raised(repositories) THEN repositories
                               ELSE Return(Get(repositories.value, path))]
        /\ UNCHANGED <<_repositories_dict, _dependencies_dict>>

get_deduplicated_repositories(commits) ==
    /\ last' = [op |-> "get_deduplicated_repositories", commits |-> commits,
                result |-> _get_deduplicated_target_or_auth_repositotries(commits, FALSE)]
    /\ UNCHANGED <<_repositories_dict, _dependencies_dict>>

get_deduplicated_auth_repositories(commits) ==
    /\ last' = [op |-> "get_deduplicated_auth_repositories", commits |-> commits,
                result |-> _get_deduplicated_target_or_auth_repositotries(commits, TRUE)]
    /\ UNCHANGED <<_repositories_dict, _dependencies_dict>>

\* a test that takes any commit entry, empty or not, for loaded
AnyCommitEntry ==
    LET all_repositories == Get(_repositories_dict, AUTH)
    IN all_repositories # None /\ DOMAIN all_repositories.some # {}

\* repositories_loaded(auth_repo): some commit of the authentication
\* repository holds a non-empty map in the targets store
repositories_loaded ==
    LET all_repositories == Get(_repositories_dict, AUTH)
    IN IF all_repositories = None \/ DOMAIN all_repositories.some = {} THEN FALSE
       ELSE \E c \in DOMAIN all_repositories.some : all_repositories.some[c] # EmptyDict

\* a clear that empties every authentication repository's entry and keeps
\* the entries
EmptiesEntries ==
    /\ _repositories_dict' = [a \in DOMAIN _repositories_dict |-> EmptyDict]
    /\ last' = [op |-> "clear_repositories_db", result |-> Return(None),
                cleared |-> DOMAIN _repositories_dict]
    /\ UNCHANGED _dependencies_dict

\* clear_repositories_db(); cleared tells the keys the dict held
clear_repositories_db ==
    /\ _repositories_dict' = EmptyDict
    /\ last' = [op |-> "clear_repositories_db", result |-> Return(None),
                cleared |-> DOMAIN _repositories_dict]
    /\ UNCHANGED _dependencies_dict

clear_dependencies_db ==
    /\ _dependencies_dict' = EmptyDict
    /\ last' = [op |-> "clear_dependencies_db", result |-> Return(None),
                cleared |-> DOMAIN _dependencies_dict]
    /\ UNCHANGED _repositories_dict

\* ------------------------------------------------------------ the calls
\* one commit, or two distinct commits in either order
CommitLists ==
    {<<c>> : c \in Commits}
    \cup {<<x[1], x[2]>> : x \in {y \in Commits \X Commits : y[1] # y[2]}}

\* a factory that gives an object for every path, and ones that give None,
\* raise, or give a foreign object for A_B
Factories ==
    {Some([p \in Paths |-> IF p = A_B THEN out ELSE NamedGitRepository]) :
        out \in {NamedGitRepository, "None", "raise", "object"}}
RepoClasses ==
    {ClassDict((A_B :> "CustomGitRepository") @@ (DEFAULT :> "FailingRepository"))}
\* a factory, or else the classes; a root_dir or the default one
Builders ==
    {[factory |-> f, repo_classes |-> NoClasses, root_dir |-> None] : f \in Factories}
    \cup {[factory |-> None, repo_classes |-> rc, root_dir |-> Some("root_dir")] :
            rc \in RepoClasses}
\* only_load_targets and roles
Selections ==
    {[only_load_targets |-> TRUE, roles |-> <<>>],
     [only_load_targets |-> FALSE, roles |-> <<>>],
     [only_load_targets |-> FALSE, roles |-> <<"delegated">>]}
\* HEAD is the newest commit, when the repository exists
Heads == {NoCommit, NumCommits}
\* commits given, or left to HEAD
CommitArgs ==
    {[commits |-> Some(cs), head |-> NumCommits] : cs \in CommitLists}
    \cup {[commits |-> None, head |-> h] : h \in Heads}

AuthClasses ==
    {None, Some("CustomAuthRepo"), Some("object"), Some("FailingRepository")}
\* ancestor_hosts omitted, empty, or holding the parent's hosts for a commit
AncestorHosts ==
    {None, Some(EmptyDict),
     Some(NumCommits :> <<[h0 |-> [auth_repos |-> <<D_E>>, ip |-> "10.0.0.0"]]>>)}

LoadRepositories ==
    \E b \in Builders, sel \in Selections, ca \in CommitArgs :
        /\ load_repositories(b.repo_classes, b.factory, b.root_dir, sel.only_load_targets,
                             ca.commits, sel.roles, ca.head)
        /\ UNCHANGED <<meta, _dependencies_dict, lcvars>>

GetRepositories ==
    \E commit \in {None} \cup {Some(c) : c \in Commits}, head \in Heads :
        /\ commit # None => head = NumCommits
        /\ get_repositories(commit, head)
        /\ UNCHANGED <<meta, lcvars>>

GetDeduplicatedRepositories ==
    \E commits \in CommitLists : get_deduplicated_repositories(commits) /\ UNCHANGED <<meta, lcvars>>

ClearRepositoriesDb == clear_repositories_db /\ UNCHANGED <<meta, lcvars>>

LoadDependencies ==
    \E auth_class \in AuthClasses, ancestor_hosts \in AncestorHosts, ca \in CommitArgs :
        /\ load_dependencies(auth_class, None, ca.commits, ancestor_hosts, ca.head)
        /\ UNCHANGED <<meta, _repositories_dict, lcvars>>

GetAuthRepositories ==
    \E commit \in {None} \cup {Some(c) : c \in Commits}, head \in Heads :
        /\ commit # None => head = NumCommits
        /\ get_auth_repositories(commit, head)
        /\ UNCHANGED <<meta, lcvars>>

GetDeduplicatedAuthRepositories ==
    \E commits \in CommitLists : get_deduplicated_auth_repositories(commits) /\ UNCHANGED <<meta, lcvars>>

ClearDependenciesDb == clear_dependencies_db /\ UNCHANGED <<meta, lcvars>>

RepositoriesLoaded ==
    /\ last' = [op |-> "repositories_loaded", result |-> Return(repositories_loaded)]
    /\ UNCHANGED <<meta, _repositories_dict, _dependencies_dict, lcvars>>

\* no dispatcher run, a clean working tree with no scripts
InitIdle ==
    /\ development_mode = FALSE
    /\ tree = [at_commit |-> [e \in {} |-> {}], working |-> [e \in {} |-> {}]]
    /\ persistent_file = None
    /\ run = [pc |-> "idle"]

InitDb ==
    /\ _repositories_dict = EmptyDict
    /\ _dependencies_dict = EmptyDict
    /\ last = [op |-> "import", result |-> Return(None)]

Init ==
    /\ meta \in Histories
    /\ InitDb
    /\ InitIdle

Next ==
    \/ LoadRepositories
    \/ GetRepositories
    \/ GetDeduplicatedRepositories
    \/ ClearRepositoriesDb

Spec == Init /\ [][Next]_vars

\* both stores, with the loaders' arguments that decide what is stored
LoadRepositoriesInto ==
    \E f \in {ff \in Factories : ff.some[A_B] \in {NamedGitRepository, "raise"}},
       only_load_targets \in BOOLEAN, ca \in CommitArgs :
        /\ load_repositories(NoClasses, f, None, only_load_targets, ca.commits, <<>>, ca.head)
        /\ UNCHANGED <<meta, _dependencies_dict, lcvars>>

LoadDependenciesInto ==
    \E ancestor_hosts \in {None, Some(EmptyDict)}, ca \in CommitArgs :
        /\ load_dependencies(None, None, ca.commits, ancestor_hosts, ca.head)
        /\ UNCHANGED <<meta, _repositories_dict, lcvars>>

\* the keyword arguments of a query by custom data
CustomFilters ==
    { EmptyDict, [type |-> "xml"], [type |-> "html"], [owner |-> "x"],
      [type |-> "xml", owner |-> "x"] }

GetRepositoriesByCustomData ==
    \E commit \in {None} \cup {Some(c) : c \in Commits}, head \in Heads,
       custom_data \in CustomFilters :
        /\ commit # None => head = NumCommits
        /\ get_repositories_by_custom_data(commit, head, custom_data)
        /\ UNCHANGED <<meta, lcvars>>

\* the targets store and its query by custom data
NextQuery ==
    \/ LoadRepositoriesInto
    \/ GetRepositoriesByCustomData
    \/ ClearRepositoriesDb

SpecQuery == Init /\ [][NextQuery]_vars

NextStores ==
    \/ LoadRepositoriesInto
    \/ LoadDependenciesInto
    \/ GetRepositories
    \/ GetAuthRepositories
    \/ GetDeduplicatedRepositories
    \/ GetDeduplicatedAuthRepositories
    \/ ClearRepositoriesDb
    \/ ClearDependenciesDb
    \/ RepositoriesLoaded

SpecStores == Init /\ [][NextStores]_vars

\* the lookups of one path in either store
GetRepository ==
    \E path \in Paths \cup {D_E}, commit \in {None} \cup {Some(c) : c \in Commits},
       head \in Heads :
        /\ commit # None => head = NumCommits
        /\ get_repository(path, commit, head)
        /\ UNCHANGED <<meta, lcvars>>

GetAuthRepository ==
    \E path \in Paths \cup {D_E}, commit \in {None} \cup {Some(c) : c \in Commits},
       head \in Heads :
        /\ commit # None => head = NumCommits
        /\ get_auth_repository(path, commit, head)
        /\ UNCHANGED <<meta, lcvars>>

NextLookups ==
    \/ LoadRepositoriesInto
    \/ LoadDependenciesInto
    \/ GetRepository
    \/ GetAuthRepository
    \/ ClearRepositoriesDb
    \/ ClearDependenciesDb

SpecLookups == Init /\ [][NextLookups]_vars

\* the dependencies store
NextDeps ==
    \/ LoadDependencies
    \/ GetAuthRepositories
    \/ GetDeduplicatedAuthRepositories
    \/ ClearDependenciesDb

SpecDeps == Init /\ [][NextDeps]_vars

\* the two loaders, one commit at a time, with a factory or a class that
\* raises for a path and with ones that do not; all declared paths selected
FailingBuilders ==
    {b \in Builders : b.factory = None \/ b.factory.some[A_B] \in {NamedGitRepository, "raise"}}
SingleCommitArgs == {ca \in CommitArgs : ca.commits = None \/ Len(ca.commits.some) = 1}

LoadRepositoriesWith ==
    \E b \in FailingBuilders, ca \in SingleCommitArgs :
        /\ load_repositories(b.repo_classes, b.factory, b.root_dir, FALSE,
                             ca.commits, <<>>, ca.head)
        /\ UNCHANGED <<meta, _dependencies_dict, lcvars>>

LoadDependenciesWith ==
    \E auth_class \in {Some("CustomAuthRepo"), Some("FailingRepository")},
       ca \in SingleCommitArgs :
        /\ load_dependencies(auth_class, Some("root_dir"), ca.commits, Some(EmptyDict), ca.head)
        /\ UNCHANGED <<meta, _repositories_dict, lcvars>>

NextLoaders ==
    \/ LoadRepositoriesWith
    \/ LoadDependenciesWith

SpecLoaders == Init /\ [][NextLoaders]_vars

\* load_dependencies over revisions that declare a dependency whose urls
\* cannot be told: no "urls" and no mirrors.json, after a dependency with
\* urls or before one
UnresolvedRevisions ==
    << Meta(Missing, Missing, EmptyDict,
            Json([dependencies |-> <<Decl(D_E, [urls |-> <<U(3)>>]), Decl(X_Y, EmptyDict)>>]),
            Json(HostsJson), JsonList(HostsList)),
       Revisions[1],
       Meta(Missing, Missing, EmptyDict,
            Json([dependencies |-> <<Decl(X_Y, EmptyDict), Decl(D_E, [urls |-> <<U(3)>>])>>]),
            Json(HostsJson), JsonList(HostsList)),
       Revisions[2] >>

UnresolvedHistories ==
    {[c \in Commits |-> UnresolvedRevisions[((k + c - 2) % Len(UnresolvedRevisions)) + 1]] :
        k \in 1 .. Len(UnresolvedRevisions)}

InitUnresolved ==
    /\ meta \in UnresolvedHistories
    /\ InitDb
    /\ InitIdle

NextUnresolved ==
    \/ LoadDependencies
    \/ GetAuthRepositories
    \/ ClearDependenciesDb

SpecUnresolved == InitUnresolved /\ [][NextUnresolved]_vars

\* ================================================ the helpers, called alone
\* Every sequence over S of a length from lo to hi.
SeqsOf(S, lo, hi) == UNION {[1 .. n -> S] : n \in lo .. hi}

\* repository paths of one to MaxSegments segments
RepoPaths == SeqsOf({"a", "b"}, 1, MaxSegments)
\* the value of "mirrors": None, or a list of up to MaxMirrors templates
MirrorLists ==
    {None} \cup {Some(l) : l \in SeqsOf({Mirror, <<"git@host:", "{repo_name}">>},
                                        0, MaxMirrors)}
RepoDatas ==
    { EmptyDict,
      [custom |-> [type |-> "html"]],
      [urls |-> <<U(1), U(2)>>],
      [urls |-> <<>>, custom |-> [type |-> "html"]] }

GetUrls ==
    \E mirrors \in MirrorLists, repo_path \in RepoPaths, repo_data \in RepoDatas :
        /\ last' = [op |-> "_get_urls", mirrors |-> mirrors,
                    repo_path |-> repo_path, repo_data |-> repo_data,
                    result |-> _get_urls(mirrors, repo_path, repo_data)]
        /\ UNCHANGED <<meta, _repositories_dict, _dependencies_dict, lcvars>>

CustomRepoDatas ==
    { EmptyDict,
      [urls |-> <<U(1)>>, custom |-> EmptyDict],
      [custom |-> [type |-> "html"]],
      [custom |-> [type |-> "html", owner |-> "x"]] }
TargetArgs ==
    { None, Some(EmptyDict), Some([custom |-> EmptyDict]),
      Some([custom |-> [type |-> "xml"]]),
      Some([custom |-> [serve |-> "latest"]]) }

\* _get_custom_data(repo, target), repo being an object that held `before`
\* and was read from the metadata as `declared`
CustomDataCall(declared, before, target) ==
    [op |-> "_get_custom_data", declared |-> declared, before |-> before,
     target |-> target, result |-> _get_custom_data(before, target),
     repo |-> _get_custom_data_repo(before, target)]

\* the merge of a repository's data as it was read
GetCustomData ==
    \E repo \in CustomRepoDatas, target \in TargetArgs :
        /\ last' = CustomDataCall(repo, repo, target)
        /\ UNCHANGED <<meta, _repositories_dict, _dependencies_dict, lcvars>>

\* a further merge of the same repository data object
GetCustomDataAgain ==
    /\ last.op = "_get_custom_data"
    /\ \E target \in TargetArgs :
        last' = CustomDataCall(last.declared, last.repo, target)
    /\ UNCHANGED <<meta, _repositories_dict, _dependencies_dict, lcvars>>

\* host declarations: hosts.json objects, each host with its auth_repos
HostDeclarations ==
    { HostsJson,
      [h1 |-> [auth_repos |-> <<D_E>>, ip |-> "10.0.0.9"]],
      [h2 |-> [auth_repos |-> <<A_B, D_E>>]],
      [h1 |-> [auth_repos |-> <<A_B>>, ip |-> "10.0.0.3"],
       h3 |-> [auth_repos |-> <<D_E>>, ip |-> "10.0.0.4", port |-> "22"]],
      [h4 |-> [auth_repos |-> <<>>]] }
HostsArgs == SeqsOf(HostDeclarations, 0, MaxDeclarations)

\* set_hosts_of_repo(auth_repo, hosts) for a repository of this name
SetHostsOfRepo ==
    \E name \in {D_E, X_Y}, hosts \in HostsArgs :
        /\ last' = [op |-> "set_hosts_of_repo", name |-> name, hosts |-> hosts,
                    result |-> set_hosts_of_repo_result(hosts),
                    auth_repo_hosts |-> set_hosts_of_repo(name, hosts),
                    hosts_after |-> set_hosts_of_repo_leaves(name, hosts)]
        /\ UNCHANGED <<meta, _repositories_dict, _dependencies_dict, lcvars>>

InitHelpers ==
    /\ meta = [c \in Commits |-> Revisions[1]]
    /\ InitDb
    /\ InitIdle

NextHelpers ==
    \/ GetUrls
    \/ GetCustomData
    \/ GetCustomDataAgain
    \/ SetHostsOfRepo

SpecHelpers == InitHelpers /\ [][NextHelpers]_vars

\* ======================================================= lifecycle handlers

\* class Event; a python str is tagged so that == between an enum member and
\* a str is decided (False) rather than undefined
SUCCEEDED == [Event |-> "succeeded"]
CHANGED == [Event |-> "changed"]
UNCHANGED_ == [Event |-> "unchanged"]
FAILED == [Event |-> "failed"]
COMPLETED == [Event |-> "completed"]
Events == {SUCCEEDED, CHANGED, UNCHANGED_, FAILED, COMPLETED}
to_name(event) == event.Event
Str(s) == [str |-> s]

REPO == "repo"
SCRIPTS_DIR == "scripts"
TRANSIENT_KEY == "transient"
PERSISTENT_KEY == "persistent"

_get_script_path(lifecycle_stage, event) ==
    <<"targets", SCRIPTS_DIR, lifecycle_stage, to_name(event)>>

\* ---- the scripts of the authentication repository
\* A file of a scripts directory: names are numbered in the order of their
\* path strings.  In the working tree a file also has the content it holds:
\* the committed one, or a local one.
File(name, suffix) == [name |-> name, suffix |-> suffix]
Local(file) == [name |-> file.name, suffix |-> file.suffix, content |-> "local"]
Committed(file) ==
    [name |-> file.name, suffix |-> file.suffix, content |-> "committed"]
ScriptDirs == {_get_script_path(REPO, e) : e \in Events}

CommittedSets ==
    { {},
      {File(MaxScripts, ".py")},
      {File(n, ".py") : n \in 1 .. MaxScripts} \cup {File(0, ".md")} }
\* local changes of a directory: none, an untracked script, or an untracked
\* script and a locally modified last script
LocalSets ==
    { {},
      {File(0, ".py")},
      {File(0, ".py"), File(MaxScripts, ".py")} }
WorkingOf(committed, local) ==
    {Committed(f) : f \in {g \in committed : g \notin local}}
        \cup {Local(f) : f \in local}
Trees ==
    { [at_commit |-> [d \in ScriptDirs |-> c],
       working |-> [d \in ScriptDirs |-> WorkingOf(c, l)]] :
        c \in CommittedSets, l \in LocalSets }

\* auth_repo.list_files_at_revision(last_commit, scripts_rel_path)
list_files_at_revision(t, scripts_rel_path) == t.at_commit[scripts_rel_path]
\* auth_repo.checkout_paths(last_commit, *paths): the working tree gets the
\* committed content of these files
checkout_paths(t, scripts_rel_path, files) ==
    [t EXCEPT !.working[scripts_rel_path] =
        {w \in @ : File(w.name, w.suffix) \notin files}
            \cup {Committed(f) : f \in files}]
\* glob.glob(f"{path}/*.py")
glob(t, scripts_rel_path) ==
    {File(w.name, w.suffix) : w \in {v \in t.working[scripts_rel_path] : v.suffix = ".py"}}
\* what running the file at this path runs
ContentAt(t, scripts_rel_path, file) ==
    (CHOOSE w \in t.working[scripts_rel_path] :
        File(w.name, w.suffix) = file).content

\* a listing in descending order of path
RECURSIVE Descending(_)
Descending(paths) ==
    IF paths = {} THEN <<>>
    ELSE LET first == CHOOSE p \in paths : \A q \in paths : p.name >= q.name
         IN  <<first>> \o Descending(paths \ {first})

RECURSIVE sorted(_)
sorted(paths) ==
    IF paths = {} THEN <<>>
    ELSE LET first == CHOOSE p \in paths : \A q \in paths : p.name <= q.name
         IN  <<first>> \o sorted(paths \ {first})

\* ---- what a script prints
NoOutput == [empty |-> TRUE]
JsonOutput(d) == [json |-> d]
\* the script exits with a non-zero code: run raises
Failure == [fails |-> TRUE]
\* the script prints something that is no JSON: json.loads raises
NotJson == [not_json |-> TRUE]
Outputs ==
    { NoOutput, Failure, NotJson,
      JsonOutput(EmptyDict),
      JsonOutput([transient |-> [k |-> "1"]]),
      JsonOutput([persistent |-> [k |-> "1"]]),
      JsonOutput([transient |-> [k |-> "2"], persistent |-> [j |-> "2"]]) }

\* ---- prepare_data_repo
commits_data == [after_pull |-> NumCommits]
auth_repo_name == "auth_repo.name"
targets_data == "targets_data"

\* a context that carries the name of the event as it was given
NamedAsGiven(event, transient_data, persistent_data, error) ==
    [changed |-> FALSE,
     event |-> Str("event/" \o to_name(event)),
     repo_name |-> auth_repo_name,
     error_msg |-> "",
     auth_repo |-> [data |-> "auth_repo.to_json_dict()", commits |-> commits_data],
     target_repos |-> targets_data,
     transient |-> IF transient_data = None THEN EmptyDict ELSE transient_data.some,
     persistent |-> IF persistent_data = None THEN EmptyDict ELSE persistent_data.some]

prepare_data_repo(event, transient_data, persistent_data, error) ==
    LET transient == IF transient_data = None THEN EmptyDict
                     ELSE transient_data.some
        persistent == IF persistent_data = None THEN EmptyDict
                      ELSE persistent_data.some
        event_name == IF event \in {CHANGED, UNCHANGED_, SUCCEEDED}
                      THEN Str("event/" \o to_name(SUCCEEDED))
                      ELSE Str("event/" \o to_name(FAILED))
    IN  [changed |-> (event_name = CHANGED),
         event |-> event_name,
         repo_name |-> auth_repo_name,
         error_msg |-> IF error = None THEN "" ELSE error.some,
         auth_repo |-> [data |-> "auth_repo.to_json_dict()",
                        commits |-> commits_data],
         target_repos |-> targets_data,
         transient |-> transient,
         persistent |-> persistent]

\* ---- _handle_event: the events whose scripts it executes, in order
CompletedFirst(event) ==
    <<COMPLETED>> \o
    (IF event \in {CHANGED, UNCHANGED_, SUCCEEDED}
     THEN (IF event = CHANGED THEN <<event>>
           ELSE IF event = UNCHANGED_ THEN <<event>> ELSE <<>>) \o <<SUCCEEDED>>
     ELSE IF event = FAILED THEN <<event>> ELSE <<>>)

_handle_event_calls(event) ==
    (IF event \in {CHANGED, UNCHANGED_, SUCCEEDED}
     THEN (IF event = CHANGED THEN <<event>>
           ELSE IF event = UNCHANGED_ THEN <<event>> ELSE <<>>) \o <<SUCCEEDED>>
     ELSE IF event = FAILED THEN <<event>> ELSE <<>>)
    \o <<COMPLETED>>

\* ---- execute_scripts
\* the tree after the scripts were collected, and their paths
FromWorkingTree(t, development, scripts_rel_path) ==
    [tree |-> t, script_paths |-> glob(t, scripts_rel_path)]

_script_paths(t, development, scripts_rel_path) ==
    IF development
    THEN [tree |-> t, script_paths |-> glob(t, scripts_rel_path)]
    ELSE LET script_names == list_files_at_revision(t, scripts_rel_path)
             script_rel_paths == {f \in script_names : f.suffix = ".py"}
         IN  [tree |-> checkout_paths(t, scripts_rel_path, script_rel_paths),
              script_paths |-> script_rel_paths]

\* prints only
_safely_save_to_disk(file, data) == file

KeepsTransient(data, output) ==
    LET persistent_data == Get(output.json, PERSISTENT_KEY)
    IN  IF persistent_data # None
        THEN [data EXCEPT !.persistent = Update(@, persistent_data.some)]
        ELSE data

\* lines 152-158: the output of a script merged into data
_merge_output(data, output) ==
    LET transient_data == Get(output.json, TRANSIENT_KEY)
        persistent_data == Get(output.json, PERSISTENT_KEY)
        d1 == IF transient_data # None
              THEN [data EXCEPT !.transient = Update(@, transient_data.some)]
              ELSE data
    IN  IF persistent_data # None
        THEN [d1 EXCEPT !.persistent = Update(@, persistent_data.some)]
        ELSE d1

IdleRun ==
    [pc |-> "idle", event |-> None, args |-> None, data |-> None,
     initial |-> None, plan |-> <<>>, bucket |-> None, todo |-> <<>>,
     buckets |-> <<>>, executed |-> <<>>, sent |-> None, output |-> None,
     result |-> None]

\* handle_repo_event is called, once in an update of the repository;
\* _handle_event hands its persistent_data and transient_data, in this
\* order, to prepare_data_repo
handle_repo_event(event, error, persistent_data, transient_data) ==
    /\ run.pc = "idle"
    /\ LET data == prepare_data_repo(event, persistent_data, transient_data, error)
       IN  run' = [IdleRun EXCEPT
                !.pc = "running", !.event = event,
                !.args = [error |-> error, persistent_data |-> persistent_data,
                          transient_data |-> transient_data],
                !.data = data, !.initial = data,
                !.plan = _handle_event_calls(event)]
    /\ UNCHANGED <<development_mode, tree, persistent_file>>

\* _handle_event calls _execute_scripts for its next event: the scripts are
\* collected
execute_scripts ==
    /\ run.pc = "running"
    /\ run.todo = <<>>
    /\ run.plan # <<>>
    /\ LET event == Head(run.plan)
           scripts_rel_path == _get_script_path(REPO, event)
           found == _script_paths(tree, development_mode, scripts_rel_path)
       IN  /\ tree' = found.tree
           /\ run' = [run EXCEPT !.plan = Tail(@), !.bucket = event,
                                 !.buckets = Append(@, event),
                                 !.todo = sorted(found.script_paths)]
    /\ UNCHANGED <<development_mode, persistent_file>>

\* an execute_scripts that would catch what a script raises
Swallowed(output) == None

\* lines 150-152: what run and json.loads raise; nothing catches it
_raised_by(output) ==
    IF output = Failure THEN Some("CalledProcessError")
    ELSE IF output = NotJson THEN Some("JSONDecodeError")
    ELSE None

\* one turn of the loop of execute_scripts: the next script runs
run_script(output) ==
    /\ run.pc = "running"
    /\ run.todo # <<>>
    /\ LET script_path == Head(run.todo)
           scripts_rel_path == _get_script_path(REPO, run.bucket)
           ran == [bucket |-> run.bucket, script |-> script_path,
                   content |-> ContentAt(tree, scripts_rel_path, script_path)]
           started == [run EXCEPT !.todo = Tail(@), !.sent = run.data,
                                  !.output = output,
                                  !.executed = Append(@, ran)]
           exc == _raised_by(output)
       IN  IF exc # None
           THEN /\ run' = [started EXCEPT !.pc = "raised",
                                          !.result = Raise(exc.some)]
                /\ UNCHANGED persistent_file
           ELSE IF "json" \notin DOMAIN output
           THEN /\ run' = started
                /\ UNCHANGED persistent_file
           ELSE LET data == _merge_output(run.data, output)
                IN  /\ run' = [started EXCEPT !.data = data]
                    /\ persistent_file' =
                           _safely_save_to_disk(persistent_file, data.persistent)
    /\ UNCHANGED <<development_mode, tree>>

\* _handle_event and handle_repo_event end: they return nothing
handle_repo_event_returns ==
    /\ run.pc = "running"
    /\ run.todo = <<>>
    /\ run.plan = <<>>
    /\ run' = [run EXCEPT !.pc = "returned", !.result = Return(None)]
    /\ UNCHANGED <<development_mode, tree, persistent_file>>

PersistentArgs == {None, Some([init |-> "persistent_data"])}
TransientArgs == {None, Some([init |-> "transient_data"])}
Errors == {None, Some("error")}

HandleRepoEvent ==
    \E event \in Events, error \in Errors,
       persistent_data \in PersistentArgs, transient_data \in TransientArgs :
        /\ handle_repo_event(event, error, persistent_data, transient_data)
        /\ UNCHANGED dbvars

ExecuteScripts == execute_scripts /\ UNCHANGED dbvars

RunScript == \E output \in Outputs : run_script(output) /\ UNCHANGED dbvars

HandleRepoEventReturns == handle_repo_event_returns /\ UNCHANGED dbvars

InitLifecycle ==
    /\ meta = [c \in Commits |-> Revisions[1]]
    /\ InitDb
    /\ development_mode \in BOOLEAN
    /\ tree \in Trees
    /\ persistent_file = None
    /\ run = IdleRun

NextLifecycle ==
    \/ HandleRepoEvent
    \/ ExecuteScripts
    \/ RunScript
    \/ HandleRepoEventReturns

SpecLifecycle == InitLifecycle /\ [][NextLifecycle]_vars

\* ================================================================ claims
\* What the revisions hold, read off the metadata itself.
HasRepositoriesJson(c) == meta[c].repositories.state = "ok"
DeclaredAt(c) ==
    IF HasRepositoriesJson(c)
    THEN {meta[c].repositories.json.repositories[i].path :
            i \in 1 .. Len(meta[c].repositories.json.repositories)}
    ELSE {}
SignedAt(c) == DOMAIN meta[c].targets

\* The targets store of the authentication repository.
Loaded(d) == IF AUTH \in DOMAIN d THEN DOMAIN d[AUTH] ELSE {}
IsLoad == last.op = "load_repositories"
\* the commits the last load went through instead of passing them over
ProcessedAt(c) == <<"repositories.json", c>> \in last.reads
\* what the factory or class gave for a path in the last load
Outs(c, p) ==
    {last.calls[i].out : i \in {j \in 1 .. Len(last.calls) :
                                  last.calls[j].commit = c /\ last.calls[j].path = p}}

\* C1 as stated: after a load_repositories that returns, in every commit it
\* processed a declared unsigned path is left out with only_load_targets and
\* is in the map without it (and without roles); a declared signed path is
\* in the map in both cases.
C1_AsStated ==
    (IsLoad /\ ~Raised(last.result) /\ last.roles = <<>>) =>
        \A c \in Commits : ProcessedAt(c) =>
            \A p \in DeclaredAt(c) :
                /\ (p \notin SignedAt(c) /\ last.only_load_targets)
                        => p \notin DOMAIN _repositories_dict[AUTH][c]
                /\ (p \notin SignedAt(c) /\ ~last.only_load_targets)
                        => p \in DOMAIN _repositories_dict[AUTH][c]
                /\ p \in SignedAt(c) => p \in DOMAIN _repositories_dict[AUTH][c]

\* C1 amended: the same, except that a selected path for which the factory
\* gave None is left out of the map; every other selected path maps to the
\* object made for it at that commit.
C1_SelectionOfPaths ==
    (IsLoad /\ ~Raised(last.result) /\ last.roles = <<>>) =>
        \A c \in Commits : ProcessedAt(c) =>
            \A p \in DeclaredAt(c) :
                LET map == _repositories_dict[AUTH][c] IN
                IF p \notin SignedAt(c) /\ last.only_load_targets
                THEN p \notin DOMAIN map /\ Outs(c, p) = {}
                ELSE IF Outs(c, p) = {"None"}
                THEN p \notin DOMAIN map
                ELSE /\ p \in DOMAIN map
                     /\ map[p].path = p /\ map[p].commit = c
                     /\ Outs(c, p) = {map[p].cls}

\* a load without only_load_targets has put an unsigned path in the map
C1_Witness ==
    /\ IsLoad /\ ~Raised(last.result) /\ last.roles = <<>>
    /\ \E c \in Commits : \E p \in DeclaredAt(c) \ SignedAt(c) :
        /\ ProcessedAt(c)
        /\ ~last.only_load_targets
        /\ p \in DOMAIN _repositories_dict[AUTH][c]

\* C2: a load_repositories call leaves the map of every commit that already
\* had an entry as it was, reads no metadata at that commit and makes no
\* repository for it, whatever its arguments.
C2_SecondLoadIsNoOp ==
    [][\A c \in Loaded(_repositories_dict) :
            last'.op = "load_repositories" =>
                /\ c \in Loaded(_repositories_dict')
                /\ _repositories_dict'[AUTH][c] = _repositories_dict[AUTH][c]
                /\ \A f \in {"repositories.json", "mirrors.json", "targets"} :
                        <<f, c>> \notin last'.reads
                /\ \A i \in 1 .. Len(last'.calls) : last'.calls[i].commit # c]_vars

\* a load was asked for a commit that holds repositories and passed it over
C2_Witness ==
    /\ IsLoad
    /\ \E i \in 1 .. Len(last.commits) :
        /\ ~ProcessedAt(last.commits[i])
        /\ last.commits[i] \in Loaded(_repositories_dict)
        /\ _repositories_dict[AUTH][last.commits[i]] # EmptyDict

\* C3: the deduplicated dict holds, for every path of some listed commit's
\* map, the object of the last listed commit that has the path, and no
\* other path; for both stores.
IsDeduplicated ==
    last.op \in {"get_deduplicated_repositories", "get_deduplicated_auth_repositories"}
StoreOfLast ==
    IF last.op \in {"get_auth_repositories", "get_deduplicated_auth_repositories"}
    THEN _dependencies_dict ELSE _repositories_dict
\* the positions of the list whose commit has the path
Having(p) ==
    {i \in 1 .. Len(last.commits) : p \in DOMAIN StoreOfLast[AUTH][last.commits[i]]}
Max(S) == CHOOSE m \in S : \A n \in S : n <= m

C3_LastCommitWins ==
    (IsDeduplicated /\ ~Raised(last.result)) =>
        \A p \in Paths \cup {D_E} :
            IF Having(p) = {} THEN p \notin DOMAIN last.result.value
            ELSE /\ p \in DOMAIN last.result.value
                 /\ last.result.value[p] = StoreOfLast[AUTH][last.commits[Max(Having(p))]][p]

\* two listed commits hold different objects at one path, and the later
\* one's is returned
C3_Witness ==
    /\ IsDeduplicated /\ ~Raised(last.result)
    /\ \E p \in Paths :
        /\ Cardinality(Having(p)) = 2
        /\ StoreOfLast[AUTH][last.commits[1]][p] # StoreOfLast[AUTH][last.commits[2]][p]
        /\ last.result.value[p] = StoreOfLast[AUTH][last.commits[2]][p]

\* C4: the accessors raise RepositoriesNotFoundError exactly when the
\* authentication repository has no entry or the commit (any commit of the
\* list) has none; otherwise they return the stored map, empty or not, and
\* the deduplicated accessor returns a dict.
QueriedCommits ==
    IF IsDeduplicated THEN {last.commits[i] : i \in 1 .. Len(last.commits)}
    ELSE {IF last.commit = None THEN last.head ELSE last.commit.some}

C4_NotFoundErrors ==
    (IsDeduplicated \/ last.op \in {"get_repositories", "get_auth_repositories"}) =>
        IF AUTH \notin DOMAIN StoreOfLast \/ ~(QueriedCommits \subseteq DOMAIN StoreOfLast[AUTH])
        THEN Raised(last.result) /\ last.result.raised = RepositoriesNotFoundError
        ELSE /\ ~Raised(last.result)
             /\ ~IsDeduplicated =>
                    \A c \in QueriedCommits : last.result.value = StoreOfLast[AUTH][c]

\* the authentication repository has a commit loaded, another commit is
\* asked for, and the accessor raises
C4_Witness ==
    /\ last.op \in {"get_repositories", "get_auth_repositories"}
    /\ AUTH \in DOMAIN StoreOfLast /\ DOMAIN StoreOfLast[AUTH] # {}
    /\ ~(QueriedCommits \subseteq DOMAIN StoreOfLast[AUTH])
    /\ Raised(last.result)

\* C5: when load_repositories raises while it fills a commit's map, the
\* commit is not left loaded with the part of the map made before the error.
\* the commit the last load was at when it raised
FailedAt(c) ==
    /\ ProcessedAt(c)
    /\ \A i, j \in 1 .. Len(last.commits) :
            (last.commits[i] = c /\ i < j) => ~ProcessedAt(last.commits[j])

C5_NoHalfPopulatedMap ==
    (IsLoad /\ Raised(last.result)
        /\ last.result.raised \in {RepositoryInstantiationError, PlainException}) =>
        \A c \in Commits : FailedAt(c) =>
            \/ c \notin Loaded(_repositories_dict)
            \/ _repositories_dict[AUTH][c] = EmptyDict

\* C6: but for the clear of a store, no step changes or removes the map of
\* an entry the store holds.
Kept(d, e) == \A c \in Loaded(d) : c \in Loaded(e) /\ e[AUTH][c] = d[AUTH][c]

C6_EntriesNeverChange ==
    [][/\ last'.op # "clear_repositories_db" => Kept(_repositories_dict, _repositories_dict')
       /\ last'.op # "clear_dependencies_db" => Kept(_dependencies_dict, _dependencies_dict')]_vars

\* a load has raised at one commit while another commit, loaded before,
\* holds its repositories
C6_Witness ==
    /\ IsLoad /\ Raised(last.result)
    /\ \E c \in Loaded(_repositories_dict) :
        ~ProcessedAt(c) /\ _repositories_dict[AUTH][c] # EmptyDict


\* ---- the lifecycle dispatcher
IsPrefix(s, t) == Len(s) <= Len(t) /\ \A i \in 1 .. Len(s) : s[i] = t[i]
BucketOrder(event) ==
    CASE event = CHANGED -> <<CHANGED, SUCCEEDED, COMPLETED>>
      [] event = UNCHANGED_ -> <<UNCHANGED_, SUCCEEDED, COMPLETED>>
      [] event = SUCCEEDED -> <<SUCCEEDED, COMPLETED>>
      [] event = FAILED -> <<FAILED, COMPLETED>>
      [] event = COMPLETED -> <<COMPLETED>>
Started == run.pc # "idle"
\* the scripts executed so far in the bucket of an event
ExecutedIn(event) ==
    {run.executed[i].script :
        i \in {j \in 1 .. Len(run.executed) : run.executed[j].bucket = event}}
\* the buckets whose scripts were all executed
FinishedBuckets ==
    {run.buckets[i] :
        i \in {j \in 1 .. Len(run.buckets) :
                 j < Len(run.buckets) \/ (run.todo = <<>> /\ run.pc # "raised")}}
PyFiles(files) == {f \in files : f.suffix = ".py"}

\* C7: in a run for stage REPO the buckets are entered in the order of the
\* table (changed/unchanged, then succeeded, then completed; failed, then
\* completed; completed alone), the scripts run in that order of buckets,
\* and a run that returns has entered every bucket of its row exactly once,
\* the completed one last; no other bucket is ever entered.
C7_BucketOrder ==
    Started =>
        LET order == BucketOrder(run.event)
        IN  /\ IsPrefix(run.buckets, order)
            /\ run.pc = "returned" => run.buckets = order
            /\ \A i \in 1 .. Len(run.executed) :
                 /\ \E k \in 1 .. Len(run.buckets) :
                        run.buckets[k] = run.executed[i].bucket
                 /\ \A j \in 1 .. i :
                      \A k, l \in 1 .. Len(order) :
                          (order[k] = run.executed[j].bucket
                             /\ order[l] = run.executed[i].bucket) => k <= l
C7_Witness ==
    /\ run.pc = "returned"
    /\ run.event = CHANGED
    /\ run.buckets = <<CHANGED, SUCCEEDED, COMPLETED>>
    /\ \A e \in {CHANGED, SUCCEEDED, COMPLETED} : ExecutedIn(e) # {}

\* C8: with development mode off, the scripts executed for a bucket are
\* .py files of the tree at the last validated commit, run with their
\* committed content, and once the bucket is finished they are all of them;
\* with development mode on they are the .py files of the working tree.
C8_ScriptsOfValidatedCommit ==
    Started =>
        /\ \A i \in 1 .. Len(run.executed) :
             LET ran == run.executed[i]
                 dir == _get_script_path(REPO, ran.bucket)
             IN  IF development_mode
                 THEN [name |-> ran.script.name, suffix |-> ran.script.suffix,
                       content |-> ran.content] \in tree.working[dir]
                 ELSE /\ ran.script \in PyFiles(tree.at_commit[dir])
                      /\ ran.content = "committed"
        /\ \A e \in FinishedBuckets :
             LET dir == _get_script_path(REPO, e)
             IN  ExecutedIn(e) =
                     IF development_mode
                     THEN PyFiles({File(w.name, w.suffix) : w \in tree.working[dir]})
                     ELSE PyFiles(tree.at_commit[dir])
C8_Witness ==
    /\ ~development_mode
    /\ run.pc = "returned"
    /\ LET dir == _get_script_path(REPO, COMPLETED)
       IN  /\ ExecutedIn(COMPLETED) # {}
           /\ \E w \in tree.working[dir] :
                 w.suffix = ".py" /\ w.content = "local"
                    /\ File(w.name, w.suffix) \notin ExecutedIn(COMPLETED)

\* a python dict.update, said again: the keys of both, the later value
\* where both have the key
ShallowMerge(d, later) ==
    [k \in DOMAIN d \cup DOMAIN later |->
        IF k \in DOMAIN later THEN later[k] ELSE d[k]]
\* what a part of the context is after a script printed this output
PartAfter(part, output, key) ==
    IF "json" \in DOMAIN output /\ key \in DOMAIN output.json
    THEN ShallowMerge(part, output.json[key])
    ELSE part

\* C9: the first script of a run is handed the context as it was built, and
\* every later script, in the same bucket or a later one, is handed under
\* "transient" and under "persistent" what the script before it was handed,
\* shallowly merged with the sub-mapping that script printed, and unchanged
\* where it printed nothing or no such sub-mapping; so each script sees the
\* merge of the initial data with the output of all scripts before it.
C9_ContextThreaded ==
    [][Len(run'.executed) > Len(run.executed) =>
         \A key \in {TRANSIENT_KEY, PERSISTENT_KEY} :
            run'.sent[key] =
                IF run.executed = <<>> THEN run.initial[key]
                ELSE PartAfter(run.sent[key], run.output, key)]_vars
C9_Witness ==
    /\ Len(run.executed) >= 3
    /\ run.executed[1].bucket # run.bucket
    /\ run.output = NoOutput
    /\ DOMAIN run.sent.persistent = {"init", "k", "j"}
    /\ DOMAIN run.sent.transient = {"init", "k"}
    /\ run.sent.transient["k"] = "2"

\* C10: once a script has printed a persistent sub-mapping, and until the
\* next script starts or the run ends, last_successful_commits.json holds
\* the persistent data merged so far.
C10_FileHoldsPersistent ==
    (/\ run.executed # <<>>
     /\ "json" \in DOMAIN run.output
     /\ PERSISTENT_KEY \in DOMAIN run.output.json)
        => persistent_file = Some(run.data.persistent)

\* C11: a run that returns hands its caller the transient and the
\* persistent mapping as they are after the last script.
C11_ReturnsMappings ==
    run.pc = "returned" =>
        /\ run.result.value # None
        /\ run.result.value = <<run.data.transient, run.data.persistent>>

\* C12: once a script has failed, by its exit code or by printing what is
\* no JSON, the run has raised to its caller and nothing of it goes on: no
\* script runs, no bucket is entered and the run does not return.
Failed == run.output \in {Failure, NotJson}
C12_FailurePropagates ==
    Failed =>
        /\ run.pc = "raised"
        /\ Raised(run.result)
        /\ ~ENABLED (RunScript \/ ExecuteScripts \/ HandleRepoEventReturns)
\* a script failed with scripts of its bucket and later buckets left
C12_Witness ==
    /\ Failed
    /\ run.pc = "raised"
    /\ run.todo # <<>>
    /\ run.plan # <<>>
    /\ run.buckets # BucketOrder(run.event)

\* ---- the helpers
IsGetUrls == last.op = "_get_urls"
\* a template with its two placeholders replaced
Rendered(template, org_name, repo_name) ==
    [i \in 1 .. Len(template) |->
        CASE template[i] = "{org_name}" -> org_name
          [] template[i] = "{repo_name}" -> repo_name
          [] OTHER -> template[i]]
RenderedAll(mirrors, org_name, repo_name) ==
    [i \in 1 .. Len(mirrors) |-> Rendered(mirrors[i], org_name, repo_name)]
\* the segments joined by '/' again
RECURSIVE Joined(_)
Joined(segments) ==
    IF Len(segments) = 1 THEN segments[1]
    ELSE Joined(SubSeq(segments, 1, Len(segments) - 1))
            \o "/" \o segments[Len(segments)]

\* C13: for a path of one or two segments _get_urls gives the "urls" of the
\* repository data as they are when it has them; else it raises
\* RepositoryInstantiationError when there are no mirrors, and when the path
\* is one segment; else it gives one url for each mirror, in their order,
\* with the two segments put for org_name and repo_name.
C13_UrlsOfPath ==
    (IsGetUrls /\ Len(last.repo_path) <= 2) =>
        last.result =
            IF "urls" \in DOMAIN last.repo_data THEN Return(last.repo_data.urls)
            ELSE IF last.mirrors = None THEN Raise(RepositoryInstantiationError)
            ELSE IF Len(last.repo_path) = 1 THEN Raise(RepositoryInstantiationError)
            ELSE Return(RenderedAll(last.mirrors.some,
                                    last.repo_path[1], last.repo_path[2]))
C13_Witness ==
    /\ IsGetUrls
    /\ last.repo_path = <<"a", "b">>
    /\ "urls" \notin DOMAIN last.repo_data
    /\ last.mirrors = Some(<<<<"git@host:", "{repo_name}">>, Mirror>>)
    /\ last.result = Return(<<<<"git@host:", "b">>,
                              <<"https://git.example.com/", "a", "/", "b", ".git">>>>)

\* C14: with mirrors and no "urls", a path of three or more segments is
\* split at its last '/': the mirrors are rendered with all before it as
\* org_name and the last segment as repo_name.
C14_SplitsOnLastSlash ==
    (/\ IsGetUrls
     /\ Len(last.repo_path) >= 3
     /\ "urls" \notin DOMAIN last.repo_data
     /\ last.mirrors # None) =>
        LET n == Len(last.repo_path)
        IN  last.result =
                Return(RenderedAll(last.mirrors.some,
                                   Joined(SubSeq(last.repo_path, 1, n - 1)),
                                   last.repo_path[n]))

IsGetCustomData == last.op = "_get_custom_data"
CustomOf(object) == IF "custom" \in DOMAIN object THEN object.custom ELSE EmptyDict
\* T's value for every key of T, R's value for every other key of R
Merged(R, T) ==
    [k \in DOMAIN R \cup DOMAIN T |-> IF k \in DOMAIN T THEN T[k] ELSE R[k]]

\* C15: _get_custom_data returns, for the custom mapping R the repository
\* data holds when it is called (empty when it has none) and the custom
\* mapping T of the target (empty when there is no target or it has none),
\* T's value for every key of T and R's value for every other key of R.
C15_MergedCustomData ==
    IsGetCustomData =>
        LET R == CustomOf(last.before)
            T == IF last.target = None THEN EmptyDict
                 ELSE CustomOf(last.target.some)
        IN  /\ last.result = Merged(R, T)
            /\ DOMAIN last.result = DOMAIN R \cup DOMAIN T
            /\ DOMAIN T = {} => last.result = R
            /\ DOMAIN R = {} => last.result = T
C15_Witness ==
    /\ IsGetCustomData
    /\ last.before = [custom |-> [type |-> "html", owner |-> "x"]]
    /\ last.target = Some([custom |-> [type |-> "xml"]])
    /\ last.result = [type |-> "xml", owner |-> "x"]

\* C16: _get_custom_data leaves the repository data as it was, so that a
\* later merge of the same repository data gives what the merge of the data
\* as declared gives.
C16_InputsUnchanged ==
    IsGetCustomData =>
        /\ last.repo = last.before
        /\ last.result =
              Merged(CustomOf(last.declared),
                     IF last.target = None THEN EmptyDict
                     ELSE CustomOf(last.target.some))

IsSetHosts == last.op = "set_hosts_of_repo"
\* the declarations in which this host names the repository
NamedBy(host) ==
    {i \in 1 .. Len(last.hosts) :
        /\ host \in DOMAIN last.hosts[i]
        /\ \E j \in 1 .. Len(last.hosts[i][host].auth_repos) :
              last.hosts[i][host].auth_repos[j] = last.name}
AllHostNames == UNION {DOMAIN last.hosts[i] : i \in 1 .. Len(last.hosts)}
Stripped(host_data) ==
    [k \in DOMAIN host_data \ {"auth_repos"} |-> host_data[k]]

\* C17: the hosts set_hosts_of_repo gives the repository are, by name, the
\* hosts that list the repository under auth_repos in one of the given
\* declarations; each has the data of the last such declaration without the
\* auth_repos field; and the declarations are as they were.
C17_HostsOfRepo ==
    IsSetHosts =>
        /\ DOMAIN last.auth_repo_hosts = {h \in AllHostNames : NamedBy(h) # {}}
        /\ \A h \in DOMAIN last.auth_repo_hosts :
              last.auth_repo_hosts[h] = Stripped(last.hosts[Max(NamedBy(h))][h])
        /\ last.hosts_after = last.hosts
\* a host of the first declaration and one of the second, and a host that
\* does not list the repository
C17_Witness ==
    /\ IsSetHosts
    /\ Len(last.hosts) = 2
    /\ DOMAIN last.auth_repo_hosts = {"h2", "h3"}
    /\ "h1" \in AllHostNames
    /\ last.auth_repo_hosts["h3"] = [ip |-> "10.0.0.4", port |-> "22"]

\* C18: set_hosts_of_repo returns for every list of declarations, and when
\* no host lists the repository the repository's hosts are empty.
C18_NeverFails ==
    IsSetHosts =>
        /\ last.result = Return(None)
        /\ (\A h \in AllHostNames : NamedBy(h) = {})
              => last.auth_repo_hosts = EmptyDict
\* an empty list, or declarations with hosts of which none lists the repository
C18_Witness ==
    /\ IsSetHosts
    /\ last.name = X_Y
    /\ AllHostNames # {}
    /\ last.auth_repo_hosts = EmptyDict

\* ---- the query by custom data
IsQuery == last.op = "get_repositories_by_custom_data"
QueriedCommit == IF last.commit = None THEN last.head ELSE last.commit.some
QueriedLoaded == QueriedCommit \in Loaded(_repositories_dict)
StoredAtQueried ==
    LET map == _repositories_dict[AUTH][QueriedCommit]
    IN  {map[p] : p \in DOMAIN map}
\* every key of the filter is in the custom data with the filter's value
Matching(handle) ==
    \A k \in DOMAIN last.custom_data :
        k \in DOMAIN handle.additional_info
            /\ handle.additional_info[k] = last.custom_data[k]
Matches == {h \in StoredAtQueried : Matching(h)}

\* C19 as stated: for a loaded commit the query returns exactly the handles
\* stored for it that match the filter, all of them when the filter is
\* empty, and raises RepositoriesNotFoundError when the filter is not empty
\* and none matches.
C19_AsStated ==
    (IsQuery /\ QueriedLoaded) =>
        IF DOMAIN last.custom_data # {} /\ Matches = {}
        THEN last.result = Raise(RepositoriesNotFoundError)
        ELSE last.result = Return(Matches)

\* C19 amended: the same, but the query raises RepositoriesNotFoundError
\* whenever it has no handle to return, also with an empty filter on a
\* commit whose map is empty.
C19_MatchingHandles ==
    (IsQuery /\ QueriedLoaded) =>
        IF Matches = {}
        THEN last.result = Raise(RepositoriesNotFoundError)
        ELSE last.result = Return(Matches)
\* a filter has chosen one of two stored handles
C19_Witness ==
    /\ IsQuery /\ QueriedLoaded
    /\ DOMAIN last.custom_data # {}
    /\ Matches # {}
    /\ Matches # StoredAtQueried
    /\ last.result = Return(Matches)

\* ---- a load of a repository without a HEAD commit
\* C20: a load_repositories or load_dependencies step without commits on a
\* repository whose HEAD commit is undefined returns and leaves both stores
\* as they were.
C20_NoHeadNoEffect ==
    [][(/\ last'.op \in {"load_repositories", "load_dependencies"}
        /\ last'.commits = <<>>) =>
            /\ last'.result = Return(None)
            /\ _repositories_dict' = _repositories_dict
            /\ _dependencies_dict' = _dependencies_dict]_vars

\* ---- the loaders and the metadata files
\* the position of a commit in the list of the last load
PositionsOf(c) == {i \in 1 .. Len(last.commits) : last.commits[i] = c}

\* C21: a commit at which repositories.json is absent or is no valid json
\* does not make load_repositories raise: the commit is recorded with an
\* empty map and the commits after it in the list are processed too.
C21_AbsentOrInvalidSkipped ==
    IsLoad =>
        \A c \in Commits : (ProcessedAt(c) /\ ~HasRepositoriesJson(c)) =>
            /\ c \in Loaded(_repositories_dict)
            /\ _repositories_dict[AUTH][c] = EmptyDict
            /\ ~(Raised(last.result) /\ FailedAt(c))
            /\ \A i \in PositionsOf(c) : \A j \in 1 .. Len(last.commits) :
                    i < j => last.commits[j] \in Loaded(_repositories_dict)

\* the data object declared for a path at a commit
DataAt(c, p) ==
    LET repositories == meta[c].repositories.json.repositories
    IN repositories[CHOOSE i \in 1 .. Len(repositories) : repositories[i].path = p].data
\* the urls of a declared path can be told at the commit
Resolvable(c, p) == ~Raised(_get_urls(_load_mirrors_json(c), p, DataAt(c, p)))
\* the signed declared paths that themselves make a load fail
FailingSigned(c) ==
    {p \in DeclaredAt(c) \cap SignedAt(c) :
        ~Resolvable(c, p) \/ Outs(c, p) \cap {"raise", "object"} # {}}

\* C22: with only_load_targets, a declared path that is no signed target is
\* passed over before its urls are resolved: when no signed path of a
\* commit fails, the load does not fail at that commit and every signed
\* path for which an object was made is in the commit's map.
C22_UnsignedSkippedBeforeUrls ==
    (IsLoad /\ last.only_load_targets /\ last.roles = <<>>) =>
        \A c \in Commits :
            (ProcessedAt(c) /\ HasRepositoriesJson(c) /\ FailingSigned(c) = {}) =>
                /\ ~(Raised(last.result) /\ FailedAt(c))
                /\ \A p \in DeclaredAt(c) \cap SignedAt(c) :
                        Outs(c, p) # {"None"} => p \in DOMAIN _repositories_dict[AUTH][c]

\* ---- load_dependencies
IsLoadDependencies == last.op = "load_dependencies"
HasDependenciesJson(c) == meta[c].dependencies.state = "ok"
DependenciesAt(c) ==
    IF HasDependenciesJson(c)
    THEN {meta[c].dependencies.json.dependencies[i].path :
            i \in 1 .. Len(meta[c].dependencies.json.dependencies)}
    ELSE {}
RequestedCommits == {last.commits[i] : i \in 1 .. Len(last.commits)}

\* C23: load_dependencies without ancestor_hosts, with a class that is an
\* authentication repository class and valid dependencies.json and
\* hosts.json at the requested commits, returns, and the map of every
\* requested commit holds a handle for exactly the declared paths.
C23_LoadsWithoutAncestorHosts ==
    (/\ IsLoadDependencies /\ last.ancestor_hosts = None /\ last.commits # <<>>
     /\ last.auth_class \in {None, Some("CustomAuthRepo")}
     /\ \A c \in RequestedCommits :
            HasDependenciesJson(c) /\ meta[c].hosts.state = "ok") =>
        /\ ~Raised(last.result)
        /\ \A c \in RequestedCommits :
            /\ c \in Loaded(_dependencies_dict)
            /\ DOMAIN _dependencies_dict[AUTH][c] = DependenciesAt(c)

\* the commits at which the last load_dependencies read dependencies.json
DependenciesReadAt(c) == <<"dependencies.json", c>> \in last.reads
\* the host declarations that bear on the nested repositories of a commit:
\* the supplied ones of the commit, or else the hosts.json of the
\* authentication repository, and then the nested repository's hosts.json
DeclarationsAt(c) ==
    (IF c \in DOMAIN last.ancestor_hosts.some THEN last.ancestor_hosts.some[c]
     ELSE <<meta[c].hosts.json>>)
    \o (IF "list" \in DOMAIN meta[c].contained_hosts THEN meta[c].contained_hosts.json
        ELSE <<meta[c].contained_hosts.json>>)

\* C24: after load_dependencies has loaded a commit whose nested
\* repositories have a readable hosts.json, every nested repository declared
\* at the commit is stored with the hosts that name it in the supplied
\* ancestor declarations or in the hosts.json read at the commit, each
\* without its list of repositories.
C24_HostsOfNested ==
    (/\ IsLoadDependencies /\ last.ancestor_hosts # None
     /\ last.auth_class \in {None, Some("CustomAuthRepo")}) =>
        \A c \in Commits :
            (/\ DependenciesReadAt(c) /\ HasDependenciesJson(c)
             /\ meta[c].contained_hosts.state = "ok") =>
                \A p \in DependenciesAt(c) :
                    /\ p \in DOMAIN _dependencies_dict[AUTH][c]
                    /\ _dependencies_dict[AUTH][c][p].hosts
                            = set_hosts_of_repo(p, DeclarationsAt(c))

\* C25: a load_dependencies call leaves the map of every commit that
\* already had an entry as it was and reads neither dependencies.json nor
\* mirrors.json nor hosts.json at that commit; a call all of whose commits
\* already had an entry does not raise.
C25_SecondLoadDependenciesIsNoOp ==
    [][last'.op = "load_dependencies" =>
        /\ \A c \in Loaded(_dependencies_dict) :
            /\ c \in Loaded(_dependencies_dict')
            /\ _dependencies_dict'[AUTH][c] = _dependencies_dict[AUTH][c]
            /\ \A f \in {"dependencies.json", "mirrors.json", "hosts.json"} :
                    <<f, c>> \notin last'.reads
        /\ (\A i \in 1 .. Len(last'.commits) :
                last'.commits[i] \in Loaded(_dependencies_dict))
                => ~Raised(last'.result)]_vars

\* ---- optional files
MirrorsAbsent(c) == meta[c].mirrors.state = "missing"
DependenciesAbsent(c) == meta[c].dependencies.state = "missing"
HasExplicitUrls(data) == "urls" \in DOMAIN data
\* the data object of a dependency declared at a commit
DependencyDataAt(c, p) ==
    LET dependencies == meta[c].dependencies.json.dependencies
    IN dependencies[CHOOSE i \in 1 .. Len(dependencies) : dependencies[i].path = p].data
\* the paths the effective only_load_targets of the last load passes over
PassedOver(c) ==
    IF last.only_load_targets \/ Len(last.roles) > 0
    THEN DeclaredAt(c) \ DOMAIN _targets_of_roles(c, last.roles) ELSE {}

\* C26: the absence of an optional file is no error.  (1) load_repositories
\* at a commit without mirrors.json whose declared paths all have explicit
\* urls does not fail there, unless the factory does, and stores every
\* selected path for which an object was made; (2) load_dependencies asked
\* for commits without mirrors.json, with readable hosts.json files, stores
\* every declared dependency that has explicit urls; (3) load_dependencies
\* asked for commits without dependencies.json, with a readable hosts.json,
\* returns and records an empty map for each.
C26_OptionalFilesAbsent ==
    /\ IsLoad =>
        \A c \in Commits :
            (/\ ProcessedAt(c) /\ HasRepositoriesJson(c) /\ MirrorsAbsent(c)
             /\ \A p \in DeclaredAt(c) :
                    /\ HasExplicitUrls(DataAt(c, p))
                    /\ Outs(c, p) \cap {"raise", "object"} = {}) =>
                /\ ~(Raised(last.result) /\ FailedAt(c))
                /\ \A p \in DeclaredAt(c) \ PassedOver(c) :
                        Outs(c, p) # {"None"} => p \in DOMAIN _repositories_dict[AUTH][c]
    /\ (IsLoadDependencies /\ last.commits # <<>>
            /\ last.auth_class \in {None, Some("CustomAuthRepo")}) =>
        /\ (\A c \in RequestedCommits :
                /\ MirrorsAbsent(c) /\ HasDependenciesJson(c)
                /\ meta[c].hosts.state = "ok" /\ meta[c].contained_hosts.state = "ok") =>
            \A c \in RequestedCommits :
                /\ c \in Loaded(_dependencies_dict)
                /\ \A p \in DependenciesAt(c) :
                        HasExplicitUrls(DependencyDataAt(c, p))
                            => p \in DOMAIN _dependencies_dict[AUTH][c]
        /\ (\A c \in RequestedCommits :
                DependenciesAbsent(c) /\ meta[c].hosts.state = "ok") =>
            /\ ~Raised(last.result)
            /\ \A c \in RequestedCommits :
                /\ c \in Loaded(_dependencies_dict)
                /\ _dependencies_dict[AUTH][c] = EmptyDict

\* ---- the two stores
\* what a lookup of the commits in one store gives: an error when the
\* authentication repository or one of the commits has no entry
Found(store, commits) == AUTH \in DOMAIN store /\ commits \subseteq DOMAIN store[AUTH]
IsTargetsAccessor == last.op \in {"get_repositories", "get_deduplicated_repositories"}
IsDependenciesAccessor ==
    last.op \in {"get_auth_repositories", "get_deduplicated_auth_repositories"}
\* the result of the last accessor is the one a lookup in the store gives
AnswersFrom(store) ==
    IF ~Found(store, QueriedCommits)
    THEN Raised(last.result) /\ last.result.raised = RepositoriesNotFoundError
    ELSE /\ ~Raised(last.result)
         /\ DOMAIN last.result.value
                = UNION {DOMAIN store[AUTH][c] : c \in QueriedCommits}
         /\ \A p \in DOMAIN last.result.value :
                \E c \in QueriedCommits :
                    p \in DOMAIN store[AUTH][c] /\ last.result.value[p] = store[AUTH][c][p]

\* C27: load_repositories and clear_repositories_db leave the dependencies
\* store as it is, load_dependencies and clear_dependencies_db leave the
\* targets store as it is, the accessors change neither; get_repositories,
\* get_deduplicated_repositories and repositories_loaded answer from the
\* targets store, get_auth_repositories and
\* get_deduplicated_auth_repositories from the dependencies store.
C27_StoresIndependent ==
    [][/\ last'.op \in {"load_repositories", "clear_repositories_db"}
            => _dependencies_dict' = _dependencies_dict
       /\ last'.op \in {"load_dependencies", "clear_dependencies_db"}
            => _repositories_dict' = _repositories_dict
       /\ (IsTargetsAccessor' \/ IsDependenciesAccessor' \/ last'.op = "repositories_loaded")
            => /\ _repositories_dict' = _repositories_dict
               /\ _dependencies_dict' = _dependencies_dict
       /\ IsTargetsAccessor' => AnswersFrom(_repositories_dict)'
       /\ IsDependenciesAccessor' => AnswersFrom(_dependencies_dict)'
       /\ last'.op = "repositories_loaded" =>
            last'.result.value
                = (\E c \in Loaded(_repositories_dict) : _repositories_dict[AUTH][c] # EmptyDict)
      ]_vars

\* an accessor of the targets store has answered while the dependencies
\* store holds something else for the commit asked for
C27_Witness ==
    /\ IsTargetsAccessor /\ ~Raised(last.result)
    /\ last.result.value # EmptyDict
    /\ Found(_dependencies_dict, QueriedCommits)
    /\ \A c \in QueriedCommits : _dependencies_dict[AUTH][c] # _repositories_dict[AUTH][c]

\* ---- the clears
AnyCommit == {None} \cup {Some(c) : c \in Commits}

\* C28: after clear_repositories_db get_repositories raises the error of a
\* never-loaded authentication repository for every commit and
\* repositories_loaded is false; the load_repositories that follows reads
\* repositories.json at every commit it records and, when it returns, has
\* recorded every commit asked for.  The same for clear_dependencies_db,
\* get_auth_repositories and load_dependencies.
C28_ClearResets ==
    [][/\ last'.op = "clear_repositories_db" =>
            /\ \A commit \in AnyCommit, head \in Heads :
                    _get_repositories(commit, FALSE, head)' = NotLoaded
            /\ ~repositories_loaded'
       /\ last'.op = "clear_dependencies_db" =>
            \A commit \in AnyCommit, head \in Heads :
                _get_repositories(commit, TRUE, head)' = NotLoaded
       /\ (last.op = "clear_repositories_db" /\ last'.op = "load_repositories") =>
            /\ \A c \in Loaded(_repositories_dict') : <<"repositories.json", c>> \in last'.reads
            /\ ~Raised(last'.result) =>
                    \A i \in 1 .. Len(last'.commits) :
                        last'.commits[i] \in Loaded(_repositories_dict')
       /\ (last.op = "clear_dependencies_db" /\ last'.op = "load_dependencies") =>
            /\ \A c \in Loaded(_dependencies_dict') : <<"dependencies.json", c>> \in last'.reads
            /\ ~Raised(last'.result) =>
                    \A i \in 1 .. Len(last'.commits) :
                        last'.commits[i] \in Loaded(_dependencies_dict')
      ]_vars

\* clear_repositories_db has emptied a store that held the authentication
\* repository, and the dependencies store still holds its entries
C28_Witness ==
    /\ last.op = "clear_repositories_db"
    /\ AUTH \in last.cleared
    /\ _repositories_dict = EmptyDict
    /\ Loaded(_dependencies_dict) # {}

\* ---- construction failures
IsLoader == IsLoad \/ IsLoadDependencies
RootDirOfLast == IF last.root_dir = None THEN DefaultRootDir ELSE last.root_dir.some
\* the calls of the factory or class that raised
FailedCalls == {i \in 1 .. Len(last.calls) : last.calls[i].error # ""}
\* the declaration order of the commit for the kind of the last load
DeclarationsOf(c) ==
    IF IsLoad THEN meta[c].repositories.json.repositories
    ELSE meta[c].dependencies.json.dependencies
\* the declared paths from the given one on
FromOn(c, p) ==
    LET d == DeclarationsOf(c)
    IN {d[j].path : j \in {k \in 1 .. Len(d) : \E i \in 1 .. k : d[i].path = p}}

\* C29: when the factory or the class raises for a path, the load raises
\* RepositoryInstantiationError with root_dir / path and the message of that
\* exception; it was the last construction of the call, and neither the path
\* nor any path declared after it is in the commit's map.
C29_InstantiationErrors ==
    IsLoader =>
        \A i \in FailedCalls :
            LET call == last.calls[i]
                store == IF IsLoad THEN _repositories_dict ELSE _dependencies_dict
            IN  /\ i = Len(last.calls)
                /\ Raised(last.result)
                /\ last.result.raised = RepositoryInstantiationError
                /\ last.result.repo_path = <<RootDirOfLast>> \o call.path
                /\ last.result.message = call.error
                /\ \A p \in FromOn(call.commit, call.path) :
                        p \notin DOMAIN store[AUTH][call.commit]

\* a factory raised for the second declared path of a commit: the first
\* path is in the map, the load raised
C29_Witness ==
    /\ IsLoad /\ FailedCalls # {}
    /\ \E i \in FailedCalls :
        /\ DeclarationsOf(last.calls[i].commit)[2].path = last.calls[i].path
        /\ DeclarationsOf(last.calls[i].commit)[1].path
                \in DOMAIN _repositories_dict[AUTH][last.calls[i].commit]
    /\ last.result.raised = RepositoryInstantiationError

\* ---- conforming handles
\* the classes whose instances are NamedGitRepository objects
ConformingClasses == {NamedGitRepository, "CustomGitRepository"}
\* every value of the targets store is an instance of NamedGitRepository
OnlyConformingStored ==
    \A c \in Loaded(_repositories_dict) :
        \A p \in DOMAIN _repositories_dict[AUTH][c] :
            _repositories_dict[AUTH][c][p].cls \in ConformingClasses
\* the construction was the last of the call and ended it: with
\* RepositoryInstantiationError for what it raised, or with the Exception of
\* the isinstance check
Rejected(i) ==
    /\ i = Len(last.calls)
    /\ Raised(last.result)
    /\ \/ last.result.raised = PlainException
       \/ /\ last.result.raised = RepositoryInstantiationError
          /\ "repo_path" \in DOMAIN last.result
\* the path of a construction is in the map of its commit, as an object of
\* the class that was made
StoredBy(call) ==
    /\ call.path \in DOMAIN _repositories_dict[AUTH][call.commit]
    /\ _repositories_dict[AUTH][call.commit][call.path].cls = call.out

\* C30 as stated: whatever the factory or class gives for a selected path
\* is stored as a conforming handle or ends the load with an error; every
\* stored value is a conforming handle.
C30_AsStated ==
    /\ OnlyConformingStored
    /\ IsLoad =>
        \A i \in 1 .. Len(last.calls) :
            \/ StoredBy(last.calls[i]) /\ last.calls[i].out \in ConformingClasses
            \/ Rejected(i)

\* C30 amended: an object of a conforming class is stored, an exception
\* ends the load with RepositoryInstantiationError, any other object ends it
\* with an Exception, and None is passed over without an error: the path is
\* left out of the map and the load goes on; every stored value is a
\* conforming handle.
C30_ConformingOrRejected ==
    /\ OnlyConformingStored
    /\ IsLoad =>
        \A i \in 1 .. Len(last.calls) :
            LET call == last.calls[i] IN
            CASE call.out \in ConformingClasses -> StoredBy(call)
              [] call.out = "None" ->
                    /\ call.path \notin DOMAIN _repositories_dict[AUTH][call.commit]
                    /\ ~Rejected(i)
              [] call.out = "raise" ->
                    Rejected(i) /\ last.result.raised = RepositoryInstantiationError
              [] OTHER ->
                    /\ Rejected(i) /\ last.result.raised = PlainException
                    /\ call.path \notin DOMAIN _repositories_dict[AUTH][call.commit]

\* the factory gave None for a selected path and an object for the path
\* declared after it: the load returned with the second path alone
C30_Witness ==
    /\ IsLoad /\ ~Raised(last.result)
    /\ \E i \in 1 .. Len(last.calls) - 1 :
        /\ last.calls[i].out = "None"
        /\ last.calls[i + 1].commit = last.calls[i].commit
        /\ StoredBy(last.calls[i + 1])
        /\ last.calls[i].path \notin DOMAIN _repositories_dict[AUTH][last.calls[i].commit]

\* ---- repositories_loaded
\* some commit entry of the authentication repository has a repository
SomeRepositoryStored ==
    \E c \in Loaded(_repositories_dict) : _repositories_dict[AUTH][c] # EmptyDict

\* C31: repositories_loaded answers true exactly when some commit entry of
\* the authentication repository in the targets store has a non-empty map:
\* false without an entry for the repository, false when every loaded
\* commit has an empty map, and false in the state clear_repositories_db
\* leaves.
C31_RepositoriesLoaded ==
    /\ last.op = "repositories_loaded" =>
        /\ last.result = Return(SomeRepositoryStored)
        /\ AUTH \notin DOMAIN _repositories_dict => last.result = Return(FALSE)
        /\ (\A c \in Loaded(_repositories_dict) : _repositories_dict[AUTH][c] = EmptyDict)
                => last.result = Return(FALSE)
    /\ last.op = "clear_repositories_db" => ~repositories_loaded

\* repositories_loaded has answered false for an authentication repository
\* with commit entries, all of them empty
C31_Witness ==
    /\ last.op = "repositories_loaded"
    /\ Loaded(_repositories_dict) # {}
    /\ ~SomeRepositoryStored
    /\ last.result = Return(FALSE)

\* ---- get_repository and get_auth_repository
IsLookup == last.op \in {"get_repository", "get_auth_repository"}
\* the store a lookup reads and the commit it reads it at
LookupStore ==
    IF last.op = "get_auth_repository" THEN _dependencies_dict ELSE _repositories_dict
LookupCommit == IF last.commit = None THEN last.head ELSE last.commit.some
LookupLoaded ==
    /\ AUTH \in DOMAIN LookupStore
    /\ LookupCommit \in DOMAIN LookupStore[AUTH]

\* C32: get_repository and get_auth_repository return the handle their
\* store holds at the path for the commit (HEAD when the commit is left
\* out), return None without raising when the loaded commit's map has no
\* such path, and raise RepositoriesNotFoundError when the authentication
\* repository or the commit has no entry in the store.
C32_Lookups ==
    IsLookup =>
        IF ~LookupLoaded
        THEN /\ Raised(last.result)
             /\ last.result.raised = RepositoriesNotFoundError
        ELSE LET repositories == LookupStore[AUTH][LookupCommit]
             IN IF last.path \in DOMAIN repositories
                THEN last.result = Return(Some(repositories[last.path]))
                ELSE last.result = Return(None)

\* get_repository has answered None for a path missing from the non-empty
\* map of HEAD, the commit having been left out
C32_Witness ==
    /\ last.op = "get_repository"
    /\ last.commit = None
    /\ LookupLoaded
    /\ LookupStore[AUTH][LookupCommit] # EmptyDict
    /\ last.path \notin DOMAIN LookupStore[AUTH][LookupCommit]
    /\ last.result = Return(None)

\* ---- roles and only_load_targets
\* the paths the requested roles of the last load sign at a commit
SignedByRoles(c) == DOMAIN _targets_of_roles(c, last.roles)

\* C33: a load_repositories with a non-empty roles list leaves every
\* declared path that is no signed target of those roles out of the maps
\* of the commits it processes, without making an object for it, even when
\* only_load_targets was passed as false; with an empty roles list
\* only_load_targets stays as passed and the targets of every role count
\* as signed: a load that returns has made an object for every declared
\* path without only_load_targets, and for exactly the declared paths
\* signed by any role with it.
C33_RolesForceOnlyLoadTargets ==
    IsLoad =>
        \A c \in Commits : ProcessedAt(c) =>
            \A p \in DeclaredAt(c) :
                /\ (last.roles # <<>> /\ p \notin SignedByRoles(c)) =>
                        /\ p \notin DOMAIN _repositories_dict[AUTH][c]
                        /\ Outs(c, p) = {}
                /\ (last.roles = <<>> /\ ~Raised(last.result)) =>
                        IF last.only_load_targets
                        THEN (Outs(c, p) # {}) = (p \in SignedAt(c))
                        ELSE Outs(c, p) # {}

\* a load with roles and only_load_targets passed as false has left out a
\* declared path that another role signs, and stored one its roles sign
C33_Witness ==
    /\ IsLoad /\ last.roles # <<>> /\ ~last.only_load_targets
    /\ \E c \in Commits :
        /\ ProcessedAt(c)
        /\ \E p \in (DeclaredAt(c) \cap SignedAt(c)) \ SignedByRoles(c) :
                p \notin DOMAIN _repositories_dict[AUTH][c]
        /\ \E p \in DeclaredAt(c) \cap SignedByRoles(c) :
                p \in DOMAIN _repositories_dict[AUTH][c]

\* ---- the context of a run
\* C34: the context built for a run carries "event/succeeded" as its event
\* when the run was started for SUCCEEDED, CHANGED or UNCHANGED and
\* "event/failed" when it was started for FAILED or COMPLETED; its
\* error_msg is the string of the error, or the empty string without one.
C34_EventNormalized ==
    Started =>
        /\ run.initial.event =
                IF run.event \in {SUCCEEDED, CHANGED, UNCHANGED_}
                THEN Str("event/succeeded") ELSE Str("event/failed")
        /\ run.initial.error_msg =
                IF run.args.error = None THEN "" ELSE run.args.error.some

\* a run started for COMPLETED with an error carries the failed name and
\* the string of the error
C34_Witness ==
    /\ Started
    /\ run.event = COMPLETED
    /\ run.args.error # None
    /\ run.initial.event = Str("event/failed")
    /\ run.initial.error_msg = run.args.error.some

\* the mapping an argument of handle_repo_event stands for
MappingOf(arg) == IF arg = None THEN EmptyDict ELSE arg.some

\* C35: the first script of a run is handed, under "persistent", the
\* persistent_data given to handle_repo_event and, under "transient", the
\* transient_data given to it, each an empty mapping when none was given.
C35_PersistentAndTransientKept ==
    Len(run.executed) = 1 =>
        /\ run.sent.persistent = MappingOf(run.args.persistent_data)
        /\ run.sent.transient = MappingOf(run.args.transient_data)

\* C38: the "changed" flag of the context built for a run is true exactly
\* when the run was started for CHANGED.
C38_ChangedFlag ==
    Started => (run.initial.changed = (run.event = CHANGED))

\* ---- the scripts of one bucket
\* what was invoked in the bucket of an event, in the order of invocation
InvokedIn(event) == SelectSeq(run.executed, LAMBDA ran : ran.bucket = event)
\* the .py files execute_scripts finds for an event
Discovered(event) ==
    LET dir == _get_script_path(REPO, event)
    IN  IF development_mode
        THEN PyFiles({File(w.name, w.suffix) : w \in tree.working[dir]})
        ELSE PyFiles(tree.at_commit[dir])
InvokedInOrder ==
    \A e \in Events :
        LET ran == InvokedIn(e)
        IN  /\ \A i, j \in 1 .. Len(ran) :
                    i < j => ran[i].script.name < ran[j].script.name
            /\ \A i \in 1 .. Len(ran) :
                    ran[i].script.suffix = ".py" /\ ran[i].script \in Discovered(e)
            /\ e \in FinishedBuckets =>
                    {ran[i].script : i \in 1 .. Len(ran)} = Discovered(e)

\* C36: within a bucket the scripts are invoked in strictly ascending order
\* of name, so none twice; only discovered .py files are invoked, and once
\* the bucket is finished every one of them has been; each invocation
\* hands the script the context as it is at that moment.
C36_EachScriptOnceInOrder ==
    [][/\ InvokedInOrder'
       /\ Len(run'.executed) > Len(run.executed) => run'.sent = run.data]_vars

\* a finished bucket whose directory holds a file that is no .py file and
\* several scripts, all of them invoked, the second with a context the
\* first one changed
C36_Witness ==
    /\ ~development_mode
    /\ \E e \in FinishedBuckets :
        /\ Len(InvokedIn(e)) = MaxScripts
        /\ \E f \in tree.at_commit[_get_script_path(REPO, e)] : f.suffix # ".py"
    /\ Len(run.executed) = MaxScripts
    /\ run.sent # run.initial

\* ---- load_dependencies and urls that cannot be told
\* the last load has dealt with every failure of _get_urls: the commit is
\* recorded with an empty map, the load did not end at it, and a load that
\* returned has recorded every commit after it in the list
UnresolvedHandled ==
    IsLoadDependencies =>
        \A u \in last.unresolved :
            /\ u.commit \in Loaded(_dependencies_dict)
            /\ _dependencies_dict[AUTH][u.commit] = EmptyDict
            /\ Raised(last.result) => last.at > u.at
            /\ ~Raised(last.result) =>
                    \A j \in (u.at + 1) .. Len(last.commits) :
                        last.commits[j] \in Loaded(_dependencies_dict)

\* C37: when _get_urls fails for a dependency declared at a commit,
\* load_dependencies does not raise at that commit: the handles made for
\* the commit are dropped, the commit is recorded with an empty map, the
\* commits after it in the list are gone through, and a later
\* load_dependencies finds the commit recorded and leaves its map empty
\* without reading dependencies.json at it.
C37_UnresolvedDependencyDropsCommit ==
    [][/\ UnresolvedHandled'
       /\ (IsLoadDependencies /\ last'.op = "load_dependencies") =>
            \A u \in last.unresolved :
                /\ _dependencies_dict'[AUTH][u.commit] = EmptyDict
                /\ <<"dependencies.json", u.commit>> \notin last'.reads]_vars

\* a load that returned made a handle at a commit, dropped it when the urls
\* of the next dependency could not be told, and stored a handle at the
\* commit after it
C37_Witness ==
    /\ IsLoadDependencies /\ ~Raised(last.result)
    /\ \E u \in last.unresolved :
        /\ \E i \in 1 .. Len(last.calls) : last.calls[i].commit = u.commit
        /\ _dependencies_dict[AUTH][u.commit] = EmptyDict
        /\ \E j \in (u.at + 1) .. Len(last.commits) :
                _dependencies_dict[AUTH][last.commits[j]] # EmptyDict

============================================================================
